---- MODULE Spec2Model ----
(***************************************************************************)
(* Model of the graph service of the graph-metrics plugin:                 *)
(*   - EnhancedGraphService (graph construction, path search, graph cache) *)
(* A graph (Record<string, Map<string, ConnectionInfo>>) and every Map are *)
(* sequences of [key, val] entries in insertion order, which is the order  *)
(* Object.entries and Map.entries iterate in.                              *)
(***************************************************************************)
EXTENDS Integers, Sequences, FiniteSets, TLC

VARIABLES
    vault,      \* the markdown files, their links and their tags
    graph,      \* the graph handed to a path query
    settings,   \* this.settings of the service
    start,      \* start node of a path query
    end,        \* end node of a path query
    call,       \* the last step taken and what it returned
    heap,       \* the graph objects the service has made, by object identity
    cachedGraph,    \* this.cachedGraph: an object of heap, or Null
    lastCacheTime,  \* this.lastCacheTime
    now,        \* Date.now()
    builds,     \* the buildGraph calls in flight; clean: the vault is as it was at the call;
                \* notified: the file whose change, the last of the vault, updateGraphCache
                \* was called for while the build is suspended
    pending,    \* the updateGraphCache calls that await vault.read
    events,     \* the number of updateGraphCache calls and changes so far
    modal       \* the connection analysis modal: its fields and where analyzeConnections is

\* the state of the service
service == <<heap, cachedGraph, lastCacheTime, now, builds, pending, events>>

vars == <<vault, graph, settings, start, end, call, service, modal>>

----------------------------------------------------------------------------
(* Bounds of the model *)

\* largest number of edges of a graph a path query is given
MaxEdges == 4
\* largest configured settings.maxPathLength
MaxPathLen == 3
\* largest number of links in the text of all files of a vault that is built
MaxLinks == 2
\* largest number of updateGraphCache calls, vault changes and settings changes
MaxEvents == 3
\* largest number of steps of the clock
MaxTicks == 2

----------------------------------------------------------------------------
(* ConnectionType, ConnectionInfo *)

DIRECT == "direct"
BACKLINK == "backlink"
TAG == "tag"
EMBEDDED == "embedded"

ConnectionType == {DIRECT, BACKLINK, TAG, EMBEDDED}

----------------------------------------------------------------------------
(* Map<K, V>: entries in insertion order *)

MapHas(m, k) == \E i \in 1..Len(m) : m[i].key = k

MapGet(m, k) == m[CHOOSE i \in 1..Len(m) : m[i].key = k].val

\* Map.set keeps the position of a key that is already present
MapSet(m, k, v) ==
    IF MapHas(m, k)
    THEN [i \in 1..Len(m) |-> IF m[i].key = k THEN [key |-> k, val |-> v] ELSE m[i]]
    ELSE Append(m, [key |-> k, val |-> v])

MapDelete(m, k) == SelectSeq(m, LAMBDA e : e.key # k)

MapKeys(m) == {m[i].key : i \in 1..Len(m)}

Range(seq) == {seq[i] : i \in 1..Len(seq)}

\* graph[node] || new Map()
Neighbors(g, node) == IF MapHas(g, node) THEN MapGet(g, node) ELSE <<>>

----------------------------------------------------------------------------
(* PathResult *)

NoPath == [distance |-> -1, path |-> <<>>, connectionTypes |-> <<>>]

----------------------------------------------------------------------------
(* findShortestPathOriginal: BFS over a FIFO queue whose entries carry     *)
(* their own path and connection types                                     *)

RECURSIVE EnqueueNeighbors(_, _, _, _, _)
\* the for loop over neighbors.entries(): st = [queue, visited]
EnqueueNeighbors(neighbors, i, cur, queue, visited) ==
    IF i > Len(neighbors) THEN [queue |-> queue, visited |-> visited]
    ELSE LET neighbor == neighbors[i].key
             connectionInfo == neighbors[i].val
         IN IF neighbor \notin visited
            THEN EnqueueNeighbors(neighbors, i + 1, cur,
                    Append(queue, [node |-> neighbor,
                                   distance |-> cur.distance + 1,
                                   path |-> Append(cur.path, neighbor),
                                   connectionTypes |-> Append(cur.connectionTypes, connectionInfo)]),
                    visited \cup {neighbor})
            ELSE EnqueueNeighbors(neighbors, i + 1, cur, queue, visited)

RECURSIVE OriginalLoop(_, _, _, _, _)
OriginalLoop(g, endNode, maxPathLength, queue, visited) ==
    IF queue = <<>> THEN NoPath
    ELSE LET cur == Head(queue)
             rest == Tail(queue)
         IN IF cur.distance >= maxPathLength
            THEN OriginalLoop(g, endNode, maxPathLength, rest, visited)
            ELSE IF cur.node = endNode
            THEN [distance |-> cur.distance, path |-> cur.path,
                  connectionTypes |-> cur.connectionTypes]
            ELSE LET st == EnqueueNeighbors(Neighbors(g, cur.node), 1, cur, rest, visited)
                 IN OriginalLoop(g, endNode, maxPathLength, st.queue, st.visited)

findShortestPathOriginal(g, s, e, cfg) ==
    OriginalLoop(g, e, cfg.maxPathLength,
                 <<[node |-> s, distance |-> 0, path |-> <<s>>, connectionTypes |-> <<>>]>>,
                 {s})

----------------------------------------------------------------------------
(* findShortestPathBidirectional: two frontiers, each a Map from node to   *)
(* {prev, distance, connectionInfo}, here a function on the visited nodes  *)

\* let shortestDistance = Infinity
Infinity == 1000000

\* let meetingNode: string | null = null
NullNode == "<null>"

\* connectionInfo: null of a frontier's root
NullInfo == [type |-> "<null>"]

\* the reversed edge payload: Direct and Backlink swap, other types pass through
ReverseInfo(origInfo) ==
    [origInfo EXCEPT !.type = IF @ = DIRECT THEN BACKLINK
                              ELSE IF @ = BACKLINK THEN DIRECT
                              ELSE @]

\* a backward search that follows the outgoing connections of node instead
IncomingNeighbors_Outgoing(g, node) == Neighbors(g, node)

\* the incoming connections of node, in the order of Object.entries(graph)
IncomingNeighbors(g, node) ==
    LET sources == SelectSeq(g, LAMBDA e : MapHas(e.val, node))
    IN [i \in 1..Len(sources) |->
            [key |-> sources[i].key, val |-> ReverseInfo(MapGet(sources[i].val, node))]]

RECURSIVE ForwardNeighbors(_, _, _, _, _)
\* for (const [neighbor, connectionInfo] of neighbors.entries()) of the forward search
ForwardNeighbors(neighbors, i, node, nodeInfo, bs) ==
    IF i > Len(neighbors) THEN bs
    ELSE LET neighbor == neighbors[i].key
             connectionInfo == neighbors[i].val
         IN IF neighbor \in DOMAIN bs.forwardVisited
            THEN ForwardNeighbors(neighbors, i + 1, node, nodeInfo, bs)
            ELSE LET visited == bs.forwardVisited @@
                        (neighbor :> [prev |-> node, distance |-> nodeInfo.distance + 1,
                                      connectionInfo |-> connectionInfo])
                     met == neighbor \in DOMAIN bs.backwardVisited
                     totalDistance == nodeInfo.distance + 1 + bs.backwardVisited[neighbor].distance
                     better == met /\ totalDistance < bs.shortestDistance
                 IN ForwardNeighbors(neighbors, i + 1, node, nodeInfo,
                        [bs EXCEPT !.forwardVisited = visited,
                                   !.forwardQueue = Append(@, neighbor),
                                   !.shortestDistance = IF better THEN totalDistance ELSE @,
                                   !.meetingNode = IF better THEN neighbor ELSE @])

RECURSIVE ForwardLevel(_, _, _, _)
\* for (let i = 0; i < levelSize; i++) of the forward search
ForwardLevel(g, maxPathLength, levelSize, bs) ==
    IF levelSize = 0 THEN bs
    ELSE LET node == Head(bs.forwardQueue)
             nodeInfo == bs.forwardVisited[node]
             shifted == [bs EXCEPT !.forwardQueue = Tail(@)]
         IN IF nodeInfo.distance >= maxPathLength \/ nodeInfo.distance >= bs.shortestDistance
            THEN ForwardLevel(g, maxPathLength, levelSize - 1, shifted)
            ELSE ForwardLevel(g, maxPathLength, levelSize - 1,
                    ForwardNeighbors(Neighbors(g, node), 1, node, nodeInfo, shifted))

RECURSIVE BackwardNeighbors(_, _, _, _, _)
\* for (const [neighbor, connectionInfo] of neighbors.entries()) of the backward search
BackwardNeighbors(neighbors, i, node, nodeInfo, bs) ==
    IF i > Len(neighbors) THEN bs
    ELSE LET neighbor == neighbors[i].key
             connectionInfo == neighbors[i].val
         IN IF neighbor \in DOMAIN bs.backwardVisited
            THEN BackwardNeighbors(neighbors, i + 1, node, nodeInfo, bs)
            ELSE LET visited == bs.backwardVisited @@
                        (neighbor :> [prev |-> node, distance |-> nodeInfo.distance + 1,
                                      connectionInfo |-> connectionInfo])
                     met == neighbor \in DOMAIN bs.forwardVisited
                     totalDistance == nodeInfo.distance + 1 + bs.forwardVisited[neighbor].distance
                     better == met /\ totalDistance < bs.shortestDistance
                 IN BackwardNeighbors(neighbors, i + 1, node, nodeInfo,
                        [bs EXCEPT !.backwardVisited = visited,
                                   !.backwardQueue = Append(@, neighbor),
                                   !.shortestDistance = IF better THEN totalDistance ELSE @,
                                   !.meetingNode = IF better THEN neighbor ELSE @])

RECURSIVE BackwardLevel(_, _, _, _)
\* for (let i = 0; i < levelSize; i++) of the backward search
BackwardLevel(g, maxPathLength, levelSize, bs) ==
    IF levelSize = 0 THEN bs
    ELSE LET node == Head(bs.backwardQueue)
             nodeInfo == bs.backwardVisited[node]
             shifted == [bs EXCEPT !.backwardQueue = Tail(@)]
         IN IF nodeInfo.distance >= maxPathLength \/ nodeInfo.distance >= bs.shortestDistance
            THEN BackwardLevel(g, maxPathLength, levelSize - 1, shifted)
            ELSE BackwardLevel(g, maxPathLength, levelSize - 1,
                    BackwardNeighbors(IncomingNeighbors(g, node), 1, node, nodeInfo, shifted))

\* visited.get(queue[0] || "")?.distance || Infinity
FrontDistance(visited, queue) ==
    IF queue = <<>> THEN Infinity
    ELSE IF Head(queue) \notin DOMAIN visited THEN Infinity
    ELSE IF visited[Head(queue)].distance = 0 THEN Infinity
    ELSE visited[Head(queue)].distance

Min(x, y) == IF x <= y THEN x ELSE y

\* the break after a round
SearchDone(bs) ==
    /\ bs.meetingNode # NullNode
    /\ bs.shortestDistance <= Min(FrontDistance(bs.forwardVisited, bs.forwardQueue),
                                  FrontDistance(bs.backwardVisited, bs.backwardQueue))

RECURSIVE BidirectionalLoop(_, _, _)
\* while (forwardQueue.length > 0 && backwardQueue.length > 0)
BidirectionalLoop(g, maxPathLength, bs) ==
    IF bs.forwardQueue = <<>> \/ bs.backwardQueue = <<>> THEN bs
    ELSE LET next == IF Len(bs.forwardQueue) <= Len(bs.backwardQueue)
                     THEN ForwardLevel(g, maxPathLength, Len(bs.forwardQueue), bs)
                     ELSE BackwardLevel(g, maxPathLength, Len(bs.backwardQueue), bs)
         IN IF SearchDone(next) THEN next
            ELSE BidirectionalLoop(g, maxPathLength, next)

RECURSIVE ForwardHalf(_, _, _, _, _)
\* while (current !== start && forwardVisited.has(current)), then unshift(start)
ForwardHalf(forwardVisited, s, current, forwardPath, forwardConnectionTypes) ==
    IF current # s /\ current \in DOMAIN forwardVisited
    THEN LET currentInfo == forwardVisited[current]
         IN ForwardHalf(forwardVisited, s, currentInfo.prev,
                <<current>> \o forwardPath,
                IF currentInfo.connectionInfo # NullInfo
                THEN <<currentInfo.connectionInfo>> \o forwardConnectionTypes
                ELSE forwardConnectionTypes)
    ELSE [path |-> <<s>> \o forwardPath, connectionTypes |-> forwardConnectionTypes]

\* the backward half's payload flipped back to read in the forward direction
FixConnectionInfo(info) ==
    IF info.type = BACKLINK THEN [info EXCEPT !.type = DIRECT]
    ELSE IF info.type = DIRECT THEN [info EXCEPT !.type = BACKLINK]
    ELSE info

RECURSIVE BackwardHalf(_, _, _, _, _)
\* while (current !== end && backwardVisited.has(current)), then push(end)
BackwardHalf(backwardVisited, e, current, backwardPath, backwardConnectionTypes) ==
    IF current # e /\ current \in DOMAIN backwardVisited
    THEN LET currentInfo == backwardVisited[current]
             next == currentInfo.prev
         IN IF next # e
            THEN BackwardHalf(backwardVisited, e, next,
                    Append(backwardPath, next),
                    IF currentInfo.connectionInfo # NullInfo
                    THEN Append(backwardConnectionTypes, FixConnectionInfo(currentInfo.connectionInfo))
                    ELSE backwardConnectionTypes)
            ELSE BackwardHalf(backwardVisited, e, next, backwardPath, backwardConnectionTypes)
    ELSE [path |-> Append(backwardPath, e), connectionTypes |-> backwardConnectionTypes]

\* if (meetingNode !== null) { ... } return { distance: -1, ... }
ReconstructPath(bs, s, e) ==
    IF bs.meetingNode = NullNode THEN NoPath
    ELSE LET fwd == ForwardHalf(bs.forwardVisited, s, bs.meetingNode, <<>>, <<>>)
             bwd == BackwardHalf(bs.backwardVisited, e, bs.meetingNode, <<>>, <<>>)
         IN [distance |-> bs.shortestDistance,
             path |-> fwd.path \o (IF Head(bwd.path) = bs.meetingNode
                                   THEN Tail(bwd.path) ELSE bwd.path),
             connectionTypes |-> fwd.connectionTypes \o bwd.connectionTypes]

findShortestPathBidirectional(g, s, e, cfg) ==
    LET root == [prev |-> "", distance |-> 0, connectionInfo |-> NullInfo]
        bs0 == [forwardVisited |-> (s :> root), forwardQueue |-> <<s>>,
                backwardVisited |-> (e :> root), backwardQueue |-> <<e>>,
                meetingNode |-> NullNode, shortestDistance |-> Infinity]
    IN ReconstructPath(BidirectionalLoop(g, cfg.maxPathLength, bs0), s, e)

----------------------------------------------------------------------------
(* findShortestPath: the edge cases, then the strategy chosen by the size  *)
(* of the graph. graphSize is Object.keys(graph).length.                   *)

\* graphSize < 500
StrategyThreshold == 500

\* findShortestPath with the test for missing nodes ahead of the test start === end
findShortestPath_KeysFirst(g, graphSize, s, e, cfg) ==
    IF ~MapHas(g, s) \/ ~MapHas(g, e) THEN NoPath
    ELSE IF s = e THEN [distance |-> 0, path |-> <<s>>, connectionTypes |-> <<>>]
    ELSE IF graphSize < StrategyThreshold \/ cfg.algorithmPreference = "original"
    THEN findShortestPathOriginal(g, s, e, cfg)
    ELSE findShortestPathBidirectional(g, s, e, cfg)

\* findShortestPath without the test for missing nodes
findShortestPath_NoKeyCheck(g, graphSize, s, e, cfg) ==
    IF s = e THEN [distance |-> 0, path |-> <<s>>, connectionTypes |-> <<>>]
    ELSE IF graphSize < StrategyThreshold \/ cfg.algorithmPreference = "original"
    THEN findShortestPathOriginal(g, s, e, cfg)
    ELSE findShortestPathBidirectional(g, s, e, cfg)

findShortestPath(g, graphSize, s, e, cfg) ==
    IF s = e THEN [distance |-> 0, path |-> <<s>>, connectionTypes |-> <<>>]
    ELSE IF ~MapHas(g, s) \/ ~MapHas(g, e) THEN NoPath
    ELSE IF graphSize < StrategyThreshold \/ cfg.algorithmPreference = "original"
    THEN findShortestPathOriginal(g, s, e, cfg)
    ELSE findShortestPathBidirectional(g, s, e, cfg)

----------------------------------------------------------------------------
(* findAllPaths: the shortest path, then a depth-first search over a graph *)
(* that lacks some edges of the shortest path. shuffleArray makes the      *)
(* order of the neighbours random, so the search has a set of outcomes.    *)

\* an isDuplicatePath that finds no path a duplicate
isDuplicatePath_Never(paths, newPath) == FALSE

isDuplicatePath(paths, newPath) ==
    \E i \in 1..Len(paths) : paths[i].path = newPath

RECURSIVE RemovePathEdges(_, _, _)
\* for (let i = 1; i < shortestPath.length - 1; i++), i counting from 0
RemovePathEdges(modifiedGraph, shortestPath, i) ==
    IF i >= Len(shortestPath) - 1 THEN modifiedGraph
    ELSE LET node == shortestPath[i + 1]
             nextNode == shortestPath[i + 2]
         IN IF i % 2 = 1 /\ i < Len(shortestPath) - 2
               /\ MapHas(modifiedGraph, node) /\ MapHas(MapGet(modifiedGraph, node), nextNode)
            THEN RemovePathEdges(
                    MapSet(modifiedGraph, node, MapDelete(MapGet(modifiedGraph, node), nextNode)),
                    shortestPath, i + 1)
            ELSE RemovePathEdges(modifiedGraph, shortestPath, i + 1)

createAltPathGraph(g, shortestPath) ==
    IF Len(shortestPath) > 3 THEN RemovePathEdges(g, shortestPath, 1) ELSE g

\* every order shuffleArray can leave the array in
shuffleArray(array) ==
    {[i \in 1..Len(array) |-> array[f[i]]] : f \in Permutations(1..Len(array))}

RECURSIVE findAlternativePaths(_, _, _, _, _, _, _, _, _)
RECURSIVE ExploreNeighbors(_, _, _, _, _, _, _, _, _, _)

\* a loop over neighborEntries that does not test visited.has(neighbor)
ExploreNeighbors_Revisit(g, neighborEntries, i, endNode, currentPath, currentConnectionTypes, visited, outcomes, maxPaths, maxPathLength) ==
    IF i > Len(neighborEntries) THEN outcomes
    ELSE LET neighbor == neighborEntries[i].key
             connectionInfo == neighborEntries[i].val
         IN ExploreNeighbors(g, neighborEntries, i + 1, endNode, currentPath,
                currentConnectionTypes, visited,
                UNION {findAlternativePaths(g, neighbor, endNode,
                            Append(currentPath, neighbor),
                            Append(currentConnectionTypes, connectionInfo),
                            visited, paths, maxPaths, maxPathLength) : paths \in outcomes},
                maxPaths, maxPathLength)

\* the for loop over neighborEntries; outcomes is the set of values paths can have
ExploreNeighbors(g, neighborEntries, i, endNode, currentPath, currentConnectionTypes, visited, outcomes, maxPaths, maxPathLength) ==
    IF i > Len(neighborEntries) THEN outcomes
    ELSE LET neighbor == neighborEntries[i].key
             connectionInfo == neighborEntries[i].val
         IN ExploreNeighbors(g, neighborEntries, i + 1, endNode, currentPath,
                currentConnectionTypes, visited,
                IF neighbor \in visited THEN outcomes
                ELSE UNION {findAlternativePaths(g, neighbor, endNode,
                                Append(currentPath, neighbor),
                                Append(currentConnectionTypes, connectionInfo),
                                visited, paths, maxPaths, maxPathLength) : paths \in outcomes},
                maxPaths, maxPathLength)

\* the set of values paths can have when the call returns
findAlternativePaths(g, currentNode, endNode, currentPath, currentConnectionTypes, visited, paths, maxPaths, maxPathLength) ==
    IF Len(paths) >= maxPaths \/ Len(currentPath) > maxPathLength THEN {paths}
    ELSE IF currentNode = endNode
    THEN IF isDuplicatePath(paths, currentPath) THEN {paths}
         ELSE {Append(paths, [distance |-> Len(currentPath) - 1,
                              path |-> currentPath,
                              connectionTypes |-> currentConnectionTypes])}
    ELSE UNION {ExploreNeighbors(g, neighborEntries, 1, endNode, currentPath,
                    currentConnectionTypes, visited \cup {currentNode}, {paths},
                    maxPaths, maxPathLength)
                : neighborEntries \in shuffleArray(Neighbors(g, currentNode))}

RECURSIVE InsertByPathLength(_, _)
\* r goes after every element that is not longer: Array.prototype.sort is stable
InsertByPathLength(sorted, r) ==
    IF sorted = <<>> THEN <<r>>
    ELSE IF Len(Head(sorted).path) <= Len(r.path)
    THEN <<Head(sorted)>> \o InsertByPathLength(Tail(sorted), r)
    ELSE <<r>> \o sorted

RECURSIVE SortByPathLength(_)
\* paths.sort((a, b) => a.path.length - b.path.length)
SortByPathLength(paths) ==
    IF paths = <<>> THEN <<>>
    ELSE InsertByPathLength(SortByPathLength(SubSeq(paths, 1, Len(paths) - 1)),
                            paths[Len(paths)])

\* findAllPaths whose depth-first search stops one result later
findAllPaths_OneMore(g, graphSize, s, e, maxPaths, cfg) ==
    LET shortestResult == findShortestPath(g, graphSize, s, e, cfg)
    IN IF shortestResult.distance = -1 THEN {<<>>}
       ELSE IF maxPaths <= 1 THEN {<<shortestResult>>}
       ELSE {SortByPathLength(paths) :
                paths \in findAlternativePaths(createAltPathGraph(g, shortestResult.path),
                            s, e, <<s>>, <<>>, {s}, <<shortestResult>>,
                            maxPaths + 1, cfg.maxPathLength)}

\* the set of sequences findAllPaths can return
findAllPaths(g, graphSize, s, e, maxPaths, cfg) ==
    LET shortestResult == findShortestPath(g, graphSize, s, e, cfg)
    IN IF shortestResult.distance = -1 THEN {<<>>}
       ELSE IF maxPaths <= 1 THEN {<<shortestResult>>}
       ELSE {SortByPathLength(paths) :
                paths \in findAlternativePaths(createAltPathGraph(g, shortestResult.path),
                            s, e, <<s>>, <<>>, {s}, <<shortestResult>>,
                            maxPaths, cfg.maxPathLength)}

----------------------------------------------------------------------------
(* The vault: the markdown files in the order getMarkdownFiles lists them, *)
(* the text of each as the sequence of its [[...]] and ![[...]] links, and *)
(* the tags the metadata cache holds for each. A name is a sequence of     *)
(* characters.                                                             *)

Docs == {"A.md", "B.md", "C.md"}

\* file.basename
Basename(file) ==
    CASE file = "A.md" -> <<"A">>
      [] file = "B.md" -> <<"B">>
      [] file = "C.md" -> <<"C">>

\* toLowerCase, a character at a time
LowerChar(c) ==
    CASE c = "A" -> "a"
      [] c = "B" -> "b"
      [] c = "C" -> "c"
      [] c = "Z" -> "z"
      [] OTHER -> c

ToLowerCase(name) == [i \in 1..Len(name) |-> LowerChar(name[i])]

\* String.prototype.includes
Includes(name, part) ==
    \E k \in 0..(Len(name) - Len(part)) :
        \A i \in 1..Len(part) : name[k + i] = part[i]

NoFile == "<null>"

\* Array.prototype.find: the first file of files that is one of matching, or null
FindFirst(files, matching) ==
    IF \E i \in 1..Len(files) : files[i] \in matching
    THEN files[CHOOSE i \in 1..Len(files) :
                    files[i] \in matching /\ \A j \in 1..(i - 1) : files[j] \notin matching]
    ELSE NoFile

\* exact match, then case-insensitive match, then partial match
findNoteByName(files, name) ==
    LET exactMatch == FindFirst(files, {f \in Range(files) : Basename(f) = name})
        caseInsensitiveMatch ==
            FindFirst(files, {f \in Range(files) : ToLowerCase(Basename(f)) = ToLowerCase(name)})
        partialMatch ==
            FindFirst(files, {f \in Range(files) :
                                Includes(ToLowerCase(Basename(f)), ToLowerCase(name))})
    IN IF exactMatch # NoFile THEN exactMatch
       ELSE IF caseInsensitiveMatch # NoFile THEN caseInsensitiveMatch
       ELSE partialMatch

\* (cache?.tags || []).map(tag => tag.tag.substring(1)): no tags for a file that is gone
FileTags(v, file) == IF file \in Range(v.files) THEN v.tags[file] ELSE {}

getFileMetadata(v, file) == [title |-> Basename(file), tags |-> FileTags(v, file)]

----------------------------------------------------------------------------
(* processFile, after vault.read has returned the text: the Direct edges,  *)
(* the Embedded edges, then the Tag edges, each a Map.set on graph[file]   *)

\* const MAX_TAG_MATCHES = 50
MAX_TAG_MATCHES == 50

RECURSIVE SetLinks(_, _, _, _, _, _)
\* one regex loop over the text: wikiLinkRegex matches every link, embedded or not,
\* embeddedLinkRegex the embedded ones
SetLinks(m, v, links, i, type, embeddedOnly) ==
    IF i > Len(links) THEN m
    ELSE LET linkedFile == findNoteByName(v.files, links[i].text)
         IN IF (embeddedOnly => links[i].embedded) /\ linkedFile # NoFile
            THEN SetLinks(MapSet(m, linkedFile,
                                 [type |-> type, metadata |-> getFileMetadata(v, linkedFile)]),
                          v, links, i + 1, type, embeddedOnly)
            ELSE SetLinks(m, v, links, i + 1, type, embeddedOnly)

\* tagMatchCounts: the other files of allFiles that share a tag, in the order of allFiles
TagMatches(v, file, allFiles) ==
    SelectSeq(allFiles,
              LAMBDA other : other # file /\ FileTags(v, file) \cap FileTags(v, other) # {})

RECURSIVE InsertByTagCount(_, _, _, _)
InsertByTagCount(sorted, v, file, other) ==
    IF sorted = <<>> THEN <<other>>
    ELSE IF Cardinality(FileTags(v, file) \cap FileTags(v, Head(sorted)))
                >= Cardinality(FileTags(v, file) \cap FileTags(v, other))
    THEN <<Head(sorted)>> \o InsertByTagCount(Tail(sorted), v, file, other)
    ELSE <<other>> \o sorted

RECURSIVE SortByTagCount(_, _, _)
\* .sort((a, b) => b[1].tags.length - a[1].tags.length), a stable sort
SortByTagCount(matches, v, file) ==
    IF matches = <<>> THEN <<>>
    ELSE InsertByTagCount(SortByTagCount(SubSeq(matches, 1, Len(matches) - 1), v, file),
                          v, file, matches[Len(matches)])

RECURSIVE SetTagLinks(_, _, _, _, _)
SetTagLinks(m, v, file, sortedMatches, i) ==
    IF i > Len(sortedMatches) \/ i - 1 >= MAX_TAG_MATCHES THEN m
    ELSE SetTagLinks(MapSet(m, sortedMatches[i],
                            [type |-> TAG,
                             commonTags |-> FileTags(v, file) \cap FileTags(v, sortedMatches[i]),
                             metadata |-> getFileMetadata(v, sortedMatches[i])]),
                     v, file, sortedMatches, i + 1)

\* the edges processFile sets on the Map m of file
FileLinks(m, v, file, allFiles, cfg) ==
    LET direct == SetLinks(m, v, v.content[file], 1, DIRECT, FALSE)
        embedded == IF cfg.includeEmbeddedLinks
                    THEN SetLinks(direct, v, v.content[file], 1, EMBEDDED, TRUE)
                    ELSE direct
    IN IF cfg.includeTagsInAnalysis /\ FileTags(v, file) # {}
       THEN SetTagLinks(embedded, v, file,
                        SortByTagCount(TagMatches(v, file, allFiles), v, file), 1)
       ELSE embedded

\* a processFile that sets the edges of a file although vault.read threw
processFile_ReadNeverFails(g, v, file, allFiles, cfg, readFails) ==
    IF file \notin Range(v.files) \/ ~MapHas(g, file) THEN g
    ELSE MapSet(g, file, FileLinks(MapGet(g, file), v, file, allFiles, cfg))

\* the graph after processFile(file, graph, allFiles). vault.read throws for a file
\* that is gone and graph[file.path].set throws when file is no key of the graph; the
\* catch of processFile swallows both and the graph stays as it is
processFile(g, v, file, allFiles, cfg, readFails) ==
    IF readFails \/ file \notin Range(v.files) THEN g
    ELSE IF ~MapHas(g, file)
    THEN g
    ELSE MapSet(g, file, FileLinks(MapGet(g, file), v, file, allFiles, cfg))

----------------------------------------------------------------------------
(* processBacklinks: for every edge source -> target, a Backlink edge      *)
(* target -> source unless the target already has an edge to the source.   *)
(* graph[target].has throws a TypeError when target is no key.             *)

RECURSIVE BacklinksOfSource(_, _, _, _, _)
\* for (const [target, info] of targets.entries()); r = [threw, graph]
BacklinksOfSource(r, v, source, targets, i) ==
    IF r.threw \/ i > Len(targets) THEN r
    ELSE LET target == targets[i].key
         IN IF ~MapHas(r.graph, target) THEN [r EXCEPT !.threw = TRUE]
            ELSE IF ~MapHas(MapGet(r.graph, target), source) /\ source \in Range(v.files)
            THEN BacklinksOfSource(
                    [r EXCEPT !.graph = MapSet(@, target,
                        MapSet(MapGet(r.graph, target), source,
                               [type |-> BACKLINK, metadata |-> getFileMetadata(v, source)]))],
                    v, source, targets, i + 1)
            ELSE BacklinksOfSource(r, v, source, targets, i + 1)

RECURSIVE BacklinksFrom(_, _, _)
\* for (const [source, targets] of Object.entries(graph))
BacklinksFrom(r, v, si) ==
    IF r.threw \/ si > Len(r.graph) THEN r
    ELSE BacklinksFrom(BacklinksOfSource(r, v, r.graph[si].key, r.graph[si].val, 1), v, si + 1)

processBacklinks(g, v) == BacklinksFrom([threw |-> FALSE, graph |-> g], v, 1)

----------------------------------------------------------------------------
(* buildGraph *)

\* graph[file.path] = new Map() for every file
InitNodes(files) == [i \in 1..Len(files) |-> [key |-> files[i], val |-> <<>>]]

\* the end of buildGraph, after the last batch: r = [threw, graph]
FinishBuild(g, v, cfg) ==
    IF cfg.includeBacklinks THEN processBacklinks(g, v)
    ELSE [threw |-> FALSE, graph |-> g]

RECURSIVE ProcessFiles(_, _, _, _, _, _)
ProcessFiles(g, v, files, i, cfg, unreadable) ==
    IF i > Len(files) THEN g
    ELSE ProcessFiles(processFile(g, v, files[i], files, cfg, files[i] \in unreadable),
                      v, files, i + 1, cfg, unreadable)

\* buildGraph over a vault that does not change while it runs; vault.read throws for
\* the files of unreadable
buildGraph(v, cfg, unreadable) ==
    FinishBuild(ProcessFiles(InitNodes(v.files), v, v.files, 1, cfg, unreadable), v, cfg)

----------------------------------------------------------------------------
(* Path queries: the graphs, endpoints and settings a query is made with   *)

Nodes == {"a", "b", "c", "d", "e"}

NodeOrder == <<"a", "b", "c", "d", "e">>

Idx(n) == CHOOSE i \in 1..Len(NodeOrder) : NodeOrder[i] = n

TypeOrder == <<DIRECT, BACKLINK, TAG, EMBEDDED>>

\* the connection type an edge s -> t of a query graph has: every type occurs, and the
\* edges of one route differ in type
EdgeType(s, t) == TypeOrder[((Idx(s) + 2 * Idx(t)) % 4) + 1]

\* the graph with the given keys and edges; an edge may lead to a node that is no key
MakeGraph(keys, edges) ==
    [i \in 1..Len(keys) |->
        [key |-> keys[i],
         val |-> LET targets == SelectSeq(NodeOrder, LAMBDA t : <<keys[i], t>> \in edges)
                 IN [j \in 1..Len(targets) |->
                        [key |-> targets[j],
                         val |-> [type |-> EdgeType(keys[i], targets[j])]]]]]

\* the sets of at most MaxEdges edges that leave a key, without self-loops
EdgeSets(keys) ==
    {es \in SUBSET {<<s, t>> \in Range(keys) \X Nodes : s # t} : Cardinality(es) <= MaxEdges}

QueryGraphs(keys) == {MakeGraph(keys, edges) : edges \in EdgeSets(keys)}

\* the keys of the graph, in insertion order, and the endpoints of the query: both
\* endpoints keys, one endpoint no key, or start = end
Queries ==
    {[keys |-> NodeOrder, start |-> "a", end |-> "e"],
     [keys |-> <<"a", "b", "c">>, start |-> "a", end |-> "a"],
     [keys |-> <<"a", "b", "c">>, start |-> "a", end |-> "e"],
     [keys |-> <<"c", "d", "e">>, start |-> "a", end |-> "e"],
     [keys |-> <<"c", "d", "e">>, start |-> "a", end |-> "a"]}

\* the least maximum path length the settings offer
MinPathLen == 2

\* the number of keys of the graph that are not listed in it: nodes with no edge
\* in or out, which no search reaches
IsolatedCounts == {0, StrategyThreshold}

NoCall == [op |-> "none"]

\* a path query on a given graph reads no vault
NoVault == [files |-> <<>>, content |-> <<>>, tags |-> <<>>]

\* cachedGraph: EnhancedGraph | null = null
Null == 0

\* the connection analysis modal as it is opened: no analysis has run
NoModal ==
    [pc |-> "idle", cancelAnalysisFlag |-> FALSE, status |-> "", loading |-> FALSE,
     timer |-> FALSE, displayCalled |-> FALSE, requested |-> FALSE, hasCache |-> FALSE,
     parallelProcessing |-> TRUE, totalFiles |-> 0, i |-> 0, pathLen |-> 0, pairs |-> 0]

\* a service that has not been called: no graph object, no cache, lastCacheTime = 0,
\* and a modal that has run no analysis
NoService ==
    /\ modal = NoModal
    /\ heap = <<>>
    /\ cachedGraph = Null
    /\ lastCacheTime = 0
    /\ now = 0
    /\ builds = {}
    /\ pending = {}
    /\ events = 0

InitPath ==
    /\ \E q \in Queries :
          /\ graph \in QueryGraphs(q.keys)
          /\ start = q.start
          /\ end = q.end
    /\ settings \in [maxPathLength : MinPathLen..MaxPathLen,
                      algorithmPreference : {"auto", "original"}]
    /\ call = NoCall
    /\ vault = NoVault
    /\ NoService

\* both strategies on the same input, one that findShortestPath hands to a strategy:
\* distinct endpoints that are keys of the graph
CallStrategies ==
    /\ call = NoCall
    /\ start # end
    /\ MapHas(graph, start) /\ MapHas(graph, end)
    /\ call' = [op |-> "strategies",
                original |-> findShortestPathOriginal(graph, start, end, settings),
                bidirectional |-> findShortestPathBidirectional(graph, start, end, settings)]
    /\ UNCHANGED <<vault, graph, modal, settings, start, end, service>>

CallFindShortestPath ==
    /\ call = NoCall
    /\ \E isolated \in IsolatedCounts :
          call' = [op |-> "findShortestPath", graphSize |-> Len(graph) + isolated,
                   result |-> findShortestPath(graph, Len(graph) + isolated, start, end, settings)]
    /\ UNCHANGED <<vault, graph, modal, settings, start, end, service>>

NextPath == CallStrategies \/ CallFindShortestPath

SpecPath == InitPath /\ [][NextPath]_vars

\* largest maxPaths findAllPaths is called with
MaxPaths == 3
\* largest number of edges of a graph findAllPaths is given
MaxAltEdges == 5
\* largest configured settings.maxPathLength findAllPaths is called with
MaxAltPathLen == 4

\* the edges a search from a to e can follow: none leads to a, none leaves e
ForwardEdges == {<<s, t>> \in Nodes \X Nodes : s # t /\ t # "a" /\ s # "e"}

AltEdgeSets(pairs) == {es \in SUBSET pairs : Cardinality(es) <= MaxAltEdges}

\* the queries findAllPaths is given: every graph on a, b, c, e; the graphs of forward
\* edges on all five nodes; and start = end or an endpoint that is no key
AltQueries ==
    {[keys |-> <<"a", "b", "c", "e">>, start |-> "a", end |-> "e",
      pairs |-> {<<s, t>> \in {"a", "b", "c", "e"} \X {"a", "b", "c", "e"} : s # t}],
     [keys |-> NodeOrder, start |-> "a", end |-> "e", pairs |-> ForwardEdges],
     [keys |-> <<"a", "b">>, start |-> "a", end |-> "a",
      pairs |-> {<<"a", "b">>, <<"b", "a">>}],
     [keys |-> <<"a", "b">>, start |-> "a", end |-> "e",
      pairs |-> {<<"a", "b">>, <<"b", "e">>, <<"a", "e">>}]}

InitAllPaths ==
    /\ \E q \in AltQueries :
          /\ graph \in {MakeGraph(q.keys, edges) : edges \in AltEdgeSets(q.pairs)}
          /\ start = q.start
          /\ end = q.end
    /\ settings \in [maxPathLength : MinPathLen..MaxAltPathLen, algorithmPreference : {"auto"}]
    /\ call = NoCall
    /\ vault = NoVault
    /\ NoService

\* findAllPaths with any maxPaths from 0 on; the result is one of those the shuffle allows
CallFindAllPaths ==
    /\ call = NoCall
    /\ \E isolated \in IsolatedCounts, maxPaths \in 0..MaxPaths :
          \E result \in findAllPaths(graph, Len(graph) + isolated, start, end, maxPaths, settings) :
              call' = [op |-> "findAllPaths", graphSize |-> Len(graph) + isolated,
                       maxPaths |-> maxPaths, result |-> result]
    /\ UNCHANGED <<vault, graph, modal, settings, start, end, service>>

NextAllPaths == CallFindAllPaths

SpecAllPaths == InitAllPaths /\ [][NextAllPaths]_vars


----------------------------------------------------------------------------
(* Building the graph of a vault, then a path query on it *)

\* the links a file can hold: [[A]], [[B]], [[C]], ![[B]], and [[Z]] that resolves to no file
Links ==
    {[text |-> <<"A">>, embedded |-> FALSE], [text |-> <<"B">>, embedded |-> FALSE],
     [text |-> <<"C">>, embedded |-> FALSE], [text |-> <<"B">>, embedded |-> TRUE],
     [text |-> <<"Z">>, embedded |-> FALSE]}

\* the texts of the three files, with at most MaxLinks links in all
Contents ==
    UNION {{("A.md" :> a) @@ ("B.md" :> b) @@ ("C.md" :> c) :
                a \in [1..l[1] -> Links], b \in [1..l[2] -> Links], c \in [1..l[3] -> Links]}
           : l \in {m \in [1..3 -> 0..MaxLinks] : m[1] + m[2] + m[3] <= MaxLinks}}

\* the files that carry the tag
TaggedSets == {{}, {"A.md", "B.md"}, {"B.md", "C.md"}, Docs}

\* maxPathLength: 10 of DEFAULT_SETTINGS
DefaultMaxPathLength == 10

DefaultSettings ==
    [maxPathLength |-> DefaultMaxPathLength, algorithmPreference |-> "auto",
     includeBacklinks |-> TRUE, includeEmbeddedLinks |-> TRUE, includeTagsInAnalysis |-> TRUE]

\* the default settings, and the default settings with one inference switched off
BuildSettings ==
    {DefaultSettings,
     [DefaultSettings EXCEPT !.includeBacklinks = FALSE],
     [DefaultSettings EXCEPT !.includeEmbeddedLinks = FALSE],
     [DefaultSettings EXCEPT !.includeTagsInAnalysis = FALSE],
     [DefaultSettings EXCEPT !.maxPathLength = MinPathLen],
     [DefaultSettings EXCEPT !.maxPathLength = MinPathLen, !.includeBacklinks = FALSE]}

InitBuild ==
    /\ \E c \in Contents, tagged \in TaggedSets :
          vault = [files |-> <<"A.md", "B.md", "C.md">>,
                   content |-> c,
                   tags |-> [d \in Docs |-> IF d \in tagged THEN {"t"} ELSE {}]]
    /\ settings \in BuildSettings
    /\ graph = <<>>
    /\ start = NoFile
    /\ end = NoFile
    /\ call = NoCall
    /\ NoService

\* buildGraph runs to its end; vault.read fails for at most one file
CallBuildGraph ==
    /\ call = NoCall
    /\ \E unreadable \in {{}} \cup {{d} : d \in Docs} :
          LET r == buildGraph(vault, settings, unreadable)
          IN /\ graph' = r.graph
             /\ call' = [op |-> "buildGraph", unreadable |-> unreadable, threw |-> r.threw]
    /\ UNCHANGED <<vault, settings, start, end, service, modal>>

\* findShortestPath on the graph that buildGraph returned
CallFindShortestPathBuilt ==
    /\ call.op = "buildGraph"
    /\ call.unreadable = {}
    /\ ~call.threw
    /\ \E s \in {"A.md", "C.md"}, e \in {"A.md", "C.md"} :
          /\ s # e
          /\ start' = s
          /\ end' = e
          /\ call' = [op |-> "findShortestPath", graphSize |-> Len(graph),
                      result |-> findShortestPath(graph, Len(graph), s, e, settings)]
    /\ UNCHANGED <<vault, graph, modal, settings, service>>

NextBuild == CallBuildGraph \/ CallFindShortestPathBuilt

SpecBuild == InitBuild /\ [][NextBuild]_vars

----------------------------------------------------------------------------
(* The service over a vault that changes: getGraph, updateGraphCache, the  *)
(* cache and its timestamp. A call runs up to its next await in one step;  *)
(* what follows an await is a later step, and other steps come in between. *)

\* (Date.now() - this.lastCacheTime) < 60000
CacheValidity == 60000

\* the clock moves in steps of half the validity of the cache
TickMs == CacheValidity \div 2

\* Date.now() at the first call: more than the validity of the cache after time 0
StartTime == CacheValidity

\* the texts a file is created with or changed to: no link, [[C]]
Texts == {<<>>, <<[text |-> <<"C">>, embedded |-> FALSE]>>}

ChangeTypes == {"modify", "create", "delete"}

\* the test of getGraph for the use of the cache
UseCache_Inclusive ==
    /\ settings.cacheGraphStructure
    /\ cachedGraph # Null
    /\ (now - lastCacheTime) <= CacheValidity

UseCache ==
    /\ settings.cacheGraphStructure
    /\ cachedGraph # Null
    /\ (now - lastCacheTime) < CacheValidity

\* what getGraph reads when it is called
CacheTest ==
    [cacheGraphStructure |-> settings.cacheGraphStructure,
     hadCache |-> cachedGraph # Null,
     age |-> now - lastCacheTime]

\* A.md links to B.md, B.md links to C, and there is no C.md
InitService ==
    /\ vault = [files |-> <<"A.md", "B.md">>,
                content |-> ("A.md" :> <<[text |-> <<"B">>, embedded |-> FALSE]>>)
                            @@ ("B.md" :> <<[text |-> <<"C">>, embedded |-> FALSE]>>)
                            @@ ("C.md" :> <<>>),
                tags |-> [d \in Docs |-> {}]]
    /\ settings \in {[DefaultSettings EXCEPT !.includeBacklinks = b] @@ [cacheGraphStructure |-> c]
                        : b \in BOOLEAN, c \in BOOLEAN}
    /\ graph = <<>>
    /\ start = NoFile
    /\ end = NoFile
    /\ call = NoCall
    /\ heap = <<>>
    /\ cachedGraph = Null
    /\ lastCacheTime = 0
    /\ now = StartTime
    /\ builds = {}
    /\ pending = {}
    /\ events = 0
    /\ modal = NoModal

\* return this.cachedGraph
GetGraphCached ==
    /\ UseCache
    /\ call' = [op |-> "getGraph", step |-> "cached", test |-> CacheTest,
                returned |-> cachedGraph]
    /\ UNCHANGED <<vault, graph, modal, settings, start, end, service>>

\* the rest of getGraph once buildGraph has returned graph object obj
StoreBuilt(obj) ==
    IF settings.cacheGraphStructure
    THEN cachedGraph' = obj /\ lastCacheTime' = now
    ELSE UNCHANGED <<cachedGraph, lastCacheTime>>

\* getGraph calls buildGraph, which makes a graph object with a node for every file and
\* starts processFile for every file of the batch. One buildGraph runs at a time.
GetGraphBuild ==
    /\ ~UseCache
    /\ builds = {}
    /\ events < MaxEvents
    /\ Len(vault.files) > 0
    /\ events' = events + 1
    /\ heap' = Append(heap, InitNodes(vault.files))
    /\ builds' = builds \cup {[obj |-> Len(heap) + 1, files |-> vault.files,
                               unprocessed |-> Range(vault.files), clean |-> TRUE,
                               notified |-> NoFile]}
    /\ call' = [op |-> "getGraph", step |-> "build", test |-> CacheTest, obj |-> Len(heap) + 1]
    /\ UNCHANGED <<vault, graph, modal, settings, start, end, cachedGraph, lastCacheTime, now, pending>>

\* vault.read returns for one file of the batch and processFile sets its edges
BuildProcessFile ==
    \E b \in builds : \E file \in b.unprocessed :
        /\ heap' = [heap EXCEPT ![b.obj] = processFile(@, vault, file, b.files, settings, FALSE)]
        /\ builds' = (builds \ {b}) \cup {[b EXCEPT !.unprocessed = @ \ {file}]}
        /\ call' = [op |-> "processFile", file |-> file, obj |-> b.obj]
        /\ UNCHANGED <<vault, graph, modal, settings, start, end, cachedGraph, lastCacheTime, now,
                       pending, events>>

\* the batch is done: processBacklinks, buildGraph returns, getGraph stores and returns
GetGraphBuilt ==
    \E b \in builds :
        /\ b.unprocessed = {}
        /\ LET r == FinishBuild(heap[b.obj], vault, settings)
           IN /\ heap' = [heap EXCEPT ![b.obj] = r.graph]
              /\ builds' = builds \ {b}
              /\ call' = [op |-> "getGraph", step |-> "built", threw |-> r.threw,
                          returned |-> b.obj, clean |-> b.clean, notified |-> b.notified]
              /\ IF r.threw THEN UNCHANGED <<cachedGraph, lastCacheTime>>
                 ELSE StoreBuilt(b.obj)
        /\ UNCHANGED <<vault, graph, modal, settings, start, end, now, pending, events>>

\* a delete that leaves the edges to the node in place
DeleteNode_KeepEdges(g, path) == MapDelete(g, path)

\* delete this.cachedGraph[path], then edges.delete(path) on every Map that is left
DeleteNode(g, path) ==
    LET rest == MapDelete(g, path)
    IN [i \in 1..Len(rest) |-> [key |-> rest[i].key, val |-> MapDelete(rest[i].val, path)]]

\* updateGraphCache up to its return or its await of vault.read. One updateGraphCache
\* awaits vault.read at a time. A build that is suspended keeps note of a call that is
\* made for the change of the vault in the step before it.
UpdateGraphCache ==
    \E changedFile \in Docs, changeType \in ChangeTypes :
        /\ events < MaxEvents
        /\ events' = events + 1
        /\ IF ~settings.cacheGraphStructure \/ cachedGraph = Null
           THEN /\ lastCacheTime' = 0
                /\ call' = [op |-> "updateGraphCache", step |-> "nocache"]
                /\ UNCHANGED <<heap, pending>>
           ELSE IF changeType = "delete"
           THEN /\ heap' = [heap EXCEPT ![cachedGraph] = DeleteNode(@, changedFile)]
                /\ lastCacheTime' = now
                /\ call' = [op |-> "updateGraphCache", step |-> "deleted",
                            file |-> changedFile, changeType |-> changeType,
                            before |-> heap[cachedGraph]]
                /\ UNCHANGED pending
           ELSE /\ pending = {}
                /\ heap' = IF changeType = "create"
                           THEN [heap EXCEPT ![cachedGraph] = MapSet(@, changedFile, <<>>)]
                           ELSE heap
                /\ pending' = pending \cup {[file |-> changedFile, obj |-> cachedGraph,
                                             files |-> vault.files,
                                             changeType |-> changeType]}
                /\ call' = [op |-> "updateGraphCache", step |-> "reading",
                            file |-> changedFile, changeType |-> changeType]
                /\ UNCHANGED lastCacheTime
        /\ builds' = {[b EXCEPT !.notified =
                            IF call = [op |-> "vault", file |-> changedFile, changeType |-> changeType]
                            THEN changedFile ELSE @]
                        : b \in builds}
        /\ UNCHANGED <<vault, graph, modal, settings, start, end, cachedGraph, now>>

\* vault.read returns to an updateGraphCache: processFile sets the edges on the graph
\* object the call was made with, then this.lastCacheTime = Date.now()
UpdateProcessFile ==
    \E u \in pending :
        /\ heap' = [heap EXCEPT ![u.obj] = processFile(@, vault, u.file, u.files, settings, FALSE)]
        /\ lastCacheTime' = now
        /\ pending' = pending \ {u}
        /\ call' = [op |-> "updateGraphCache", step |-> "processed", file |-> u.file,
                    changeType |-> u.changeType, obj |-> u.obj, files |-> u.files,
                    readFailed |-> u.file \notin Range(vault.files)]
        /\ UNCHANGED <<vault, graph, modal, settings, start, end, cachedGraph, now, builds, events>>

\* a file is created, changed or deleted in the vault and the vault emits the event. The
\* handler that the plugin has registered calls the plugin's own updateGraphCache, which
\* returns at its first test because the plugin's cachedGraph is null at all times: the
\* service is not called.
VaultChange ==
    /\ events < MaxEvents
    /\ events' = events + 1
    /\ \E d \in Docs :
          \/ /\ d \notin Range(vault.files)
             /\ \E text \in Texts :
                   vault' = [vault EXCEPT !.files = Append(@, d), !.content[d] = text]
             /\ call' = [op |-> "vault", file |-> d, changeType |-> "create"]
          \/ /\ d \in Range(vault.files)
             /\ \E text \in Texts \ {vault.content[d]} :
                   vault' = [vault EXCEPT !.content[d] = text]
             /\ call' = [op |-> "vault", file |-> d, changeType |-> "modify"]
          \/ /\ d \in Range(vault.files)
             /\ vault' = [vault EXCEPT !.files = SelectSeq(@, LAMBDA f : f # d),
                                       !.content[d] = <<>>]
             /\ call' = [op |-> "vault", file |-> d, changeType |-> "delete"]
    /\ builds' = {[b EXCEPT !.clean = FALSE, !.notified = NoFile] : b \in builds}
    /\ UNCHANGED <<graph, modal, settings, start, end, heap, cachedGraph, lastCacheTime, now, pending>>

\* the toggle "Cache graph structure" of the settings tab, on the settings object the
\* service shares
SetCacheGraphStructure ==
    /\ events < MaxEvents
    /\ events' = events + 1
    /\ settings' = [settings EXCEPT !.cacheGraphStructure = ~@]
    /\ call' = [op |-> "settings"]
    /\ UNCHANGED <<vault, graph, modal, start, end, heap, cachedGraph, lastCacheTime, now,
                   builds, pending>>

\* the plugin's rebuildGraphCache, of the command and of the button of the settings tab:
\* it sets the plugin's own cachedGraph and lastCacheTime, which the service does not read,
\* and awaits getGraphStructure, which is this.graphService.getGraph(). One buildGraph
\* runs at a time.
RebuildGraphCache ==
    /\ events < MaxEvents
    /\ events' = events + 1
    /\ IF UseCache
       THEN /\ call' = [op |-> "rebuildGraphCache", step |-> "cached", test |-> CacheTest,
                        returned |-> cachedGraph]
            /\ UNCHANGED <<heap, builds>>
       ELSE /\ builds = {}
            /\ Len(vault.files) > 0
            /\ heap' = Append(heap, InitNodes(vault.files))
            /\ builds' = builds \cup {[obj |-> Len(heap) + 1, files |-> vault.files,
                                       unprocessed |-> Range(vault.files), clean |-> TRUE,
                                       notified |-> NoFile]}
            /\ call' = [op |-> "rebuildGraphCache", step |-> "build", test |-> CacheTest,
                        obj |-> Len(heap) + 1]
    /\ UNCHANGED <<vault, graph, modal, settings, start, end, cachedGraph, lastCacheTime, now, pending>>

\* time passes
Tick ==
    /\ now < StartTime + MaxTicks * TickMs
    /\ now' = now + TickMs
    /\ call' = [op |-> "tick"]
    /\ UNCHANGED <<vault, graph, modal, settings, start, end, heap, cachedGraph, lastCacheTime,
                   builds, pending, events>>

Next ==
    \/ GetGraphCached
    \/ GetGraphBuild
    \/ BuildProcessFile
    \/ GetGraphBuilt
    \/ UpdateGraphCache
    \/ UpdateProcessFile
    \/ VaultChange
    \/ SetCacheGraphStructure
    \/ RebuildGraphCache
    \/ Tick

Spec == InitService /\ [][Next]_vars

----------------------------------------------------------------------------
(* A cache that is kept up to date: every change of the vault is followed  *)
(* by the matching updateGraphCache call, which runs to its end before the *)
(* next change.                                                            *)

\* the cached graph after updateGraphCache(changedFile, changeType) has run to its end
\* on the cached graph g over the vault v
updateGraphCache(g, v, changedFile, changeType, cfg) ==
    IF changeType = "delete" THEN DeleteNode(g, changedFile)
    ELSE processFile(IF changeType = "create" THEN MapSet(g, changedFile, <<>>) ELSE g,
                     v, changedFile, v.files, cfg, FALSE)

\* the texts a file is created with or changed to: no link, [[B]], [[C]]
SyncTexts == Texts \cup {<<[text |-> <<"B">>, embedded |-> FALSE]>>}

\* the service holds the graph that getGraph has built and cached
InitSync ==
    /\ vault = [files |-> <<"A.md", "B.md">>,
                content |-> ("A.md" :> <<[text |-> <<"B">>, embedded |-> FALSE]>>)
                            @@ ("B.md" :> <<[text |-> <<"C">>, embedded |-> FALSE]>>)
                            @@ ("C.md" :> <<>>),
                tags |-> [d \in Docs |-> {}]]
    /\ settings \in {[DefaultSettings EXCEPT !.includeBacklinks = b] @@ [cacheGraphStructure |-> TRUE]
                        : b \in BOOLEAN}
    /\ graph = <<>>
    /\ start = NoFile
    /\ end = NoFile
    /\ call = NoCall
    /\ heap = <<buildGraph(vault, settings, {}).graph>>
    /\ cachedGraph = 1
    /\ lastCacheTime = StartTime
    /\ now = StartTime
    /\ builds = {}
    /\ pending = {}
    /\ events = 0
    /\ modal = NoModal

\* the vault has changed to v by changeType of file: the update of the cache
SyncUpdate(v, file, changeType) ==
    /\ events < MaxEvents
    /\ events' = events + 1
    /\ vault' = v
    /\ heap' = [heap EXCEPT ![cachedGraph] = updateGraphCache(@, v, file, changeType, settings)]
    /\ call' = [op |-> "sync", file |-> file, changeType |-> changeType]
    /\ UNCHANGED <<graph, modal, settings, start, end, cachedGraph, lastCacheTime, now, builds, pending>>

CreateAndUpdate ==
    \E d \in Docs \ Range(vault.files), text \in SyncTexts :
        SyncUpdate([vault EXCEPT !.files = Append(@, d), !.content[d] = text], d, "create")

ModifyAndUpdate ==
    \E d \in Range(vault.files) : \E text \in SyncTexts \ {vault.content[d]} :
        SyncUpdate([vault EXCEPT !.content[d] = text], d, "modify")

DeleteAndUpdate ==
    \E d \in Range(vault.files) :
        SyncUpdate([vault EXCEPT !.files = SelectSeq(@, LAMBDA f : f # d), !.content[d] = <<>>],
                   d, "delete")

NextSync == CreateAndUpdate \/ ModifyAndUpdate \/ DeleteAndUpdate

SpecSync == InitSync /\ [][NextSync]_vars

----------------------------------------------------------------------------
(* The connection analysis modal: analyzeConnections, its long-running     *)
(* operations and the cancel button. A step runs from one timer or read    *)
(* that analyzeConnections awaits to the next one; a click comes between   *)
(* two steps. The graph is kept as the number of its files, a path as the  *)
(* number of its nodes.                                                    *)

\* largest number of markdown files of the vault
MaxFiles == 11
\* largest number of nodes of the shortest path
MaxPathNodes == 4

\* BATCH_SIZE of buildGraph with and without settings.parallelProcessing
BATCH_SIZE_PARALLEL == 10
BATCH_SIZE_SEQUENTIAL == 5
\* BATCH_SIZE of calculateBetweennessCentrality and of calculateClusteringCoefficient
BATCH_SIZE_BETWEENNESS == 5
BATCH_SIZE_CLUSTERING == 3
\* the sample size is between 15 and 30; below 10 files all pairs are listed
MinSampleSize == 15
MaxSampleSize == 30
FewFiles == 10

Max(a, b) == IF a > b THEN a ELSE b

\* getSamplePairs(files, sampleSize).length for a path of pathLen nodes
SamplePairs(totalFiles, pathLen) ==
    LET sampleSize == Min(MaxSampleSize, Max(MinSampleSize, pathLen * 3))
        allPairs == (totalFiles * (totalFiles - 1)) \div 2
    IN Min(sampleSize, allPairs)

\* finishLoading(finalMessage) and the return of analyzeConnections
FinishAndReturn(m, finalMessage) ==
    [m EXCEPT !.pc = "idle", !.status = finalMessage, !.timer = TRUE]

\* the last check of the flag has passed: displayResults, finishLoading, await saveSettings
ShowResults(m) ==
    [m EXCEPT !.pc = "saving", !.displayCalled = TRUE, !.status = "Analysis completed",
              !.timer = TRUE]

\* calculateClusteringCoefficient has returned: the check of the flag, findAllPaths,
\* the check of the flag
AfterClustering(m) ==
    IF m.cancelAnalysisFlag THEN FinishAndReturn(m, "Analysis cancelled")
    ELSE ShowResults(m)

\* the loop of calculateClusteringCoefficient at the test of i: the check of the flag,
\* the batch, the await of the timer
ClusteringLoop(m) ==
    IF m.i < m.pathLen /\ ~m.cancelAnalysisFlag
    THEN [m EXCEPT !.pc = "clustering", !.i = @ + BATCH_SIZE_CLUSTERING,
                   !.status = "Analyzing density"]
    ELSE AfterClustering(m)

calculateClusteringCoefficient(m) ==
    IF m.pathLen = 0 THEN AfterClustering(m)
    ELSE ClusteringLoop([m EXCEPT !.i = 0])

\* calculateBetweennessCentrality has returned: the check of the flag
AfterBetweenness(m) ==
    IF m.cancelAnalysisFlag THEN FinishAndReturn(m, "Analysis cancelled")
    ELSE calculateClusteringCoefficient(m)

\* the loop of calculateBetweennessCentrality at the test of i: the check of the flag,
\* the batch, the await of the timer
BetweennessLoop(m) ==
    IF m.i < m.pairs /\ ~m.cancelAnalysisFlag
    THEN [m EXCEPT !.pc = "betweenness", !.i = @ + BATCH_SIZE_BETWEENNESS,
                   !.status = IF m.i % (BATCH_SIZE_BETWEENNESS * 2) = 0
                              THEN "Calculating centrality" ELSE @]
    ELSE AfterBetweenness(m)

calculateBetweennessCentrality(m) ==
    IF m.pathLen <= 2 THEN AfterBetweenness(m)
    ELSE BetweennessLoop([m EXCEPT !.i = 0, !.pairs = SamplePairs(m.totalFiles, m.pathLen)])

\* getGraph has returned the graph: the check of the flag, findShortestPath returns a path
\* of pathLen nodes, the check of the flag, the metrics
AfterGetGraph(m, pathLen) ==
    IF m.cancelAnalysisFlag THEN FinishAndReturn(m, "Analysis cancelled")
    ELSE calculateBetweennessCentrality([m EXCEPT !.pathLen = pathLen,
                                                  !.status = "Calculating network metrics..."])

\* the numbers of nodes a shortest path can have: none, or 1 up to the number of files
PathLens(totalFiles) == 0..Min(MaxPathNodes, totalFiles)

BuildBatchSize(m) ==
    IF m.parallelProcessing THEN BATCH_SIZE_PARALLEL ELSE BATCH_SIZE_SEQUENTIAL

\* the step that led from m to m2: the end of analyzeConnections, the start of a batch of
\* a long-running operation, or another resumption
StepRecord(m2) ==
    IF m2.pc = "idle" THEN [op |-> "analyzeConnections", step |-> "end"]
    ELSE IF m2.pc \in {"buildRead", "betweenness", "clustering"}
    THEN [op |-> "batch", of |-> m2.pc, i |-> m2.i]
    ELSE [op |-> "resume", of |-> m2.pc]

InitModal ==
    /\ vault = NoVault
    /\ settings = DefaultSettings
    /\ graph = <<>>
    /\ start = NoFile
    /\ end = NoFile
    /\ call = NoCall
    /\ heap = <<>>
    /\ cachedGraph = Null
    /\ lastCacheTime = 0
    /\ now = 0
    /\ builds = {}
    /\ pending = {}
    /\ events = 0
    /\ \E n \in 1..MaxFiles, parallel \in BOOLEAN :
          modal = [NoModal EXCEPT !.totalFiles = n, !.parallelProcessing = parallel]

\* a click on the analyze button: analyzeConnections up to its return or its first await
\* of a read or of a timer. The button is hidden while an analysis is loading.
Analyze ==
    /\ modal.pc = "idle"
    /\ ~modal.loading
    /\ events < MaxEvents
    /\ events' = events + 1
    /\ \E found \in BOOLEAN, hit \in {FALSE, modal.hasCache}, pathLen \in PathLens(modal.totalFiles) :
          IF ~found
          THEN /\ modal' = modal
               /\ call' = [op |-> "analyzeConnections", step |-> "notFound"]
          ELSE LET m == [modal EXCEPT !.cancelAnalysisFlag = FALSE, !.displayCalled = FALSE,
                                      !.requested = FALSE, !.loading = TRUE,
                                      !.status = "Building the note graph..."]
               IN /\ modal' = IF hit THEN AfterGetGraph(m, pathLen)
                              ELSE [m EXCEPT !.pc = "buildRead", !.i = 0]
                  /\ call' = [op |-> "analyzeConnections", step |-> "start", hit |-> hit]
    /\ UNCHANGED <<vault, graph, settings, start, end, heap, cachedGraph, lastCacheTime, now,
                   builds, pending>>

\* buildGraph: the reads of a batch have returned, the progress is shown, the timer is awaited
BuildReadDone ==
    /\ modal.pc = "buildRead"
    /\ modal' = [modal EXCEPT !.pc = "buildYield", !.status = "Building graph"]
    /\ call' = StepRecord(modal')
    /\ UNCHANGED <<vault, graph, settings, start, end, service>>

\* buildGraph: the timer has fired. The next batch starts, or after the last batch
\* processBacklinks runs, getGraph returns the graph (or rejects with the TypeError of
\* processBacklinks) and analyzeConnections goes on.
BuildResume ==
    /\ modal.pc = "buildYield"
    /\ LET next == modal.i + BuildBatchSize(modal)
       IN IF next < modal.totalFiles
          THEN modal' = [modal EXCEPT !.pc = "buildRead", !.i = next]
          ELSE \E threw \in BOOLEAN, pathLen \in PathLens(modal.totalFiles) :
                  modal' = IF threw THEN FinishAndReturn(modal, "Error during analysis")
                           ELSE AfterGetGraph([modal EXCEPT !.hasCache = TRUE], pathLen)
    /\ call' = StepRecord(modal')
    /\ UNCHANGED <<vault, graph, settings, start, end, service>>

\* calculateBetweennessCentrality: the timer has fired
BetweennessResume ==
    /\ modal.pc = "betweenness"
    /\ modal' = BetweennessLoop(modal)
    /\ call' = StepRecord(modal')
    /\ UNCHANGED <<vault, graph, settings, start, end, service>>

\* calculateClusteringCoefficient: the timer has fired
ClusteringResume ==
    /\ modal.pc = "clustering"
    /\ modal' = ClusteringLoop(modal)
    /\ call' = StepRecord(modal')
    /\ UNCHANGED <<vault, graph, settings, start, end, service>>

\* saveSettings has returned: analyzeConnections returns
SaveSettingsDone ==
    /\ modal.pc = "saving"
    /\ modal' = [modal EXCEPT !.pc = "idle"]
    /\ call' = StepRecord(modal')
    /\ UNCHANGED <<vault, graph, settings, start, end, service>>

\* a click on the cancel button, which is shown while an analysis is loading.
\* requested: the click came while analyzeConnections was running.
CancelClick ==
    /\ modal.loading
    /\ modal' = [modal EXCEPT !.cancelAnalysisFlag = TRUE, !.status = "Cancelling analysis...",
                              !.requested = @ \/ modal.pc # "idle"]
    /\ call' = [op |-> "cancel", running |-> modal.pc # "idle"]
    /\ UNCHANGED <<vault, graph, settings, start, end, service>>

\* the timer of finishLoading fires: the cancel button is hidden, the analyze button shown
HideLoading ==
    /\ modal.timer
    /\ modal' = [modal EXCEPT !.timer = FALSE, !.loading = FALSE]
    /\ call' = [op |-> "hideLoading"]
    /\ UNCHANGED <<vault, graph, settings, start, end, service>>

NextModal ==
    \/ Analyze
    \/ BuildReadDone
    \/ BuildResume
    \/ BetweennessResume
    \/ ClusteringResume
    \/ SaveSettingsDone
    \/ CancelClick
    \/ HideLoading

SpecModal == InitModal /\ [][NextModal]_vars

----------------------------------------------------------------------------
(* calculatePageRank of the hub detection service. The values are exact    *)
(* fractions: pageRank[node] = num[node] / den, with one denominator for   *)
(* all nodes, so that sums are compared without rounding.                  *)

\* largest number of nodes of a graph that is ranked
MaxRankNodes == 3
\* largest number of edges of a graph that is ranked
MaxRankEdges == 4
\* largest number of iterations that are followed
MaxIterations == 2

\* dampingFactor = 0.85 = DampingNum / DampingDen
DampingNum == 17
DampingDen == 20
\* iterations = 50
PageRankIterations == 50
\* tolerance = 0.0001 = 1 / ToleranceDen
ToleranceDen == 10000

RECURSIVE Gcd(_, _)
Gcd(a, b) == IF b = 0 THEN a ELSE Gcd(b, a % b)

RECURSIVE LcmUpTo(_)
\* the least common multiple of 1..n: every out-degree and the node count divide it
LcmUpTo(n) == IF n <= 1 THEN 1 ELSE (LcmUpTo(n - 1) * n) \div Gcd(LcmUpTo(n - 1), n)

RECURSIVE SumOver(_, _)
\* the sum of f over the finite set dom
SumOver(f, dom) ==
    IF dom = {} THEN 0
    ELSE LET x == CHOOSE y \in dom : TRUE IN f[x] + SumOver(f, dom \ {x})

Abs(x) == IF x < 0 THEN -x ELSE x

\* the graphs that are ranked: every edge target is a key, a node may link to itself
RankGraphs ==
    UNION {{MakeGraph(SubSeq(NodeOrder, 1, n), edges) :
                edges \in {es \in SUBSET (Range(SubSeq(NodeOrder, 1, n)) \X Range(SubSeq(NodeOrder, 1, n))) :
                              Cardinality(es) <= MaxRankEdges}}
           : n \in 1..MaxRankNodes}

\* pageRank[node] = 1.0 / nodeCount
InitialRank(g) == [num |-> [node \in MapKeys(g) |-> 1], den |-> Len(g)]

\* a ranking that gives the value of a dangling node to no node
DanglingShare_None(g, r, unit) == 0

\* what the dangling nodes add to every node, in units of 1 / (r.den * DampingDen * unit):
\* dampingFactor * prevPageRank[node] / nodeCount for every node without edges
DanglingShare(g, r, unit) ==
    SumOver([node \in MapKeys(g) |-> DampingNum * r.num[node] * (unit \div Len(g))],
            {node \in MapKeys(g) : Len(MapGet(g, node)) = 0})

\* what the nodes with edges add to target:
\* dampingFactor * prevPageRank[node] / outDegree for every node with an edge to target
LinkShare(g, r, unit, target) ==
    SumOver([node \in MapKeys(g) |->
                DampingNum * r.num[node] * (unit \div Max(1, Len(MapGet(g, node))))],
            {node \in MapKeys(g) : MapHas(MapGet(g, node), target)})

\* the values after one iteration, up to and including the teleportation step
\* pageRank[node] += (1 - dampingFactor) / nodeCount
Iterate(g, r) ==
    LET unit == LcmUpTo(Len(g))
        den == r.den * DampingDen * unit
        baseValue == (DampingDen - DampingNum) * r.den * (unit \div Len(g))
    IN [num |-> [node \in MapKeys(g) |->
                    LinkShare(g, r, unit, node) + DanglingShare(g, r, unit) + baseValue],
        den |-> den]

\* diff < tolerance, for the values r before and r2 after an iteration
Converged(g, r, r2) ==
    LET scale == r2.den \div r.den
        diff == SumOver([node \in MapKeys(g) |-> Abs(r2.num[node] - r.num[node] * scale)],
                        MapKeys(g))
    IN diff <= (r2.den - 1) \div ToleranceDen

\* the largest numerator: Math.max(...Object.values(pageRank)) is maxNum / den
MaxNum(g, r) == CHOOSE m \in {r.num[node] : node \in MapKeys(g)} :
                    \A node \in MapKeys(g) : r.num[node] <= m

InitPageRank ==
    /\ graph \in RankGraphs
    /\ vault = NoVault
    /\ settings = DefaultSettings
    /\ start = NoFile
    /\ end = NoFile
    /\ call = NoCall
    /\ NoService

\* calculatePageRank(graph) up to its loop
CallPageRank ==
    /\ call = NoCall
    /\ call' = [op |-> "calculatePageRank", step |-> "start", iter |-> 0,
                rank |-> InitialRank(graph), converged |-> FALSE]
    /\ UNCHANGED <<vault, graph, settings, start, end, service, modal>>

\* one iteration of the loop, up to the convergence check
PageRankIteration ==
    /\ call.op = "calculatePageRank"
    /\ call.step \in {"start", "iteration"}
    /\ ~call.converged
    /\ call.iter < Min(PageRankIterations, MaxIterations)
    /\ LET r2 == Iterate(graph, call.rank)
       IN call' = [op |-> "calculatePageRank", step |-> "iteration", iter |-> call.iter + 1,
                   rank |-> r2, converged |-> Converged(graph, call.rank, r2)]
    /\ UNCHANGED <<vault, graph, settings, start, end, service, modal>>

\* after the loop: pageRank[node] /= maxRank, and the return
PageRankReturn ==
    /\ call.op = "calculatePageRank"
    /\ call.step = "iteration"
    /\ call.converged \/ call.iter >= Min(PageRankIterations, MaxIterations)
    /\ call' = [op |-> "calculatePageRank", step |-> "returned", iter |-> call.iter,
                rank |-> [num |-> call.rank.num, den |-> MaxNum(graph, call.rank)],
                converged |-> call.converged]
    /\ UNCHANGED <<vault, graph, settings, start, end, service, modal>>

NextPageRank == CallPageRank \/ PageRankIteration \/ PageRankReturn

SpecPageRank == InitPageRank /\ [][NextPageRank]_vars

----------------------------------------------------------------------------
(* The hub detection service: calculateDegreeCentrality,                   *)
(* calculateBridgingCoefficient and getTopHubNotes. A Record<string,       *)
(* number> is a function from its keys to its values.                      *)

\* largest number of keys of a graph the hub metrics are calculated for
MaxHubNodes == 3
\* largest number of edges of such a graph
MaxHubEdges == 3

\* the first n nodes
FirstNodes(n) == SubSeq(NodeOrder, 1, Min(n, Len(NodeOrder)))

\* the graphs of n keys the hub metrics are calculated for: a node may link to itself, and an edge
\* may lead to one node that is no key
HubGraphs(n) ==
    {MakeGraph(FirstNodes(n), edges) :
        edges \in {es \in SUBSET (Range(FirstNodes(n)) \X Range(FirstNodes(n + 1))) :
                      Cardinality(es) <= MaxHubEdges}}

\* rec[key] = value
RecSet(rec, key, value) ==
    [k \in DOMAIN rec \cup {key} |-> IF k = key THEN value ELSE rec[k]]

\* rec[key] || 0
RecGet(rec, key) == IF key \in DOMAIN rec THEN rec[key] ELSE 0

RECURSIVE CountNeighbors(_, _, _)
\* for (const neighbor of edges.keys()) inDegree[neighbor] = (inDegree[neighbor] || 0) + 1
CountNeighbors(inDegree, edges, j) ==
    IF j > Len(edges) THEN inDegree
    ELSE CountNeighbors(RecSet(inDegree, edges[j].key, RecGet(inDegree, edges[j].key) + 1),
                        edges, j + 1)

RECURSIVE CountEntries(_, _, _)
\* for (const [node, edges] of Object.entries(graph)); d = [inDegree, outDegree]
CountEntries(d, g, i) ==
    IF i > Len(g) THEN d
    ELSE CountEntries([inDegree |-> CountNeighbors(d.inDegree, g[i].val, 1),
                       outDegree |-> RecSet(d.outDegree, g[i].key, Len(g[i].val))],
                      g, i + 1)

\* the degrees when the first loop, which sets every node to 0, is left out
calculateDegreeCentrality_NoInit(g) ==
    LET d == CountEntries([inDegree |-> <<>>, outDegree |-> <<>>], g, 1)
    IN [inDegree |-> d.inDegree, outDegree |-> d.outDegree,
        totalDegree |-> [node \in MapKeys(g) |->
                            RecGet(d.inDegree, node) + RecGet(d.outDegree, node)]]

calculateDegreeCentrality(g) ==
    LET zero == [node \in MapKeys(g) |-> 0]
        d == CountEntries([inDegree |-> zero, outDegree |-> zero], g, 1)
    IN [inDegree |-> d.inDegree, outDegree |-> d.outDegree,
        totalDegree |-> [node \in MapKeys(g) |->
                            RecGet(d.inDegree, node) + RecGet(d.outDegree, node)]]

\* neighbors that are the targets of the node's own edges only
getNeighbors_OutgoingOnly(g, node) == MapKeys(Neighbors(g, node))

\* [...new Set([...outgoing, ...incoming])]: the targets of node and the other nodes with
\* an edge to node
getNeighbors(g, node) ==
    MapKeys(Neighbors(g, node))
        \cup {g[i].key : i \in {j \in 1..Len(g) : g[j].key # node /\ MapHas(g[j].val, node)}}

\* graph[node1]?.has(node2) || graph[node2]?.has(node1)
hasConnection(g, node1, node2) ==
    \/ MapHas(g, node1) /\ MapHas(MapGet(g, node1), node2)
    \/ MapHas(g, node2) /\ MapHas(MapGet(g, node2), node1)

\* neighbors.length * (1 - clustering) as the fraction num / den
BridgingOf(g, node) ==
    LET neighbors == getNeighbors(g, node)
        n == Cardinality(neighbors)
        possibleConnections == (n * (n - 1)) \div 2
        neighborConnections ==
            Cardinality({pair \in SUBSET neighbors :
                            /\ Cardinality(pair) = 2
                            /\ \E x \in pair, y \in pair : x # y /\ hasConnection(g, x, y)})
    IN IF n <= 1 THEN [num |-> 0, den |-> 1]
       ELSE [num |-> n * (possibleConnections - neighborConnections),
             den |-> possibleConnections]

\* Math.max(...Object.values(bridgingCoef)) of fractions with positive denominators
MaxFraction(rec) ==
    CHOOSE m \in {rec[k] : k \in DOMAIN rec} :
        \A k \in DOMAIN rec : rec[k].num * m.den <= m.num * rec[k].den

\* the bridging coefficients, divided by the largest one when it is positive
calculateBridgingCoefficient(g) ==
    LET bridgingCoef == [node \in MapKeys(g) |-> BridgingOf(g, node)]
        maxValue == MaxFraction(bridgingCoef)
    IN IF maxValue.num > 0
       THEN [node \in MapKeys(g) |->
                [num |-> bridgingCoef[node].num * maxValue.den,
                 den |-> bridgingCoef[node].den * maxValue.num]]
       ELSE bridgingCoef

InitHub ==
    /\ \E n \in 1..MaxHubNodes : graph \in HubGraphs(n)
    /\ vault = NoVault
    /\ settings = DefaultSettings
    /\ start = NoFile
    /\ end = NoFile
    /\ call = NoCall
    /\ NoService

CallDegreeCentrality ==
    /\ call = NoCall
    /\ call' = [op |-> "calculateDegreeCentrality", result |-> calculateDegreeCentrality(graph)]
    /\ UNCHANGED <<vault, graph, settings, start, end, service, modal>>

CallBridgingCoefficient ==
    /\ call = NoCall
    /\ call' = [op |-> "calculateBridgingCoefficient",
                result |-> calculateBridgingCoefficient(graph)]
    /\ UNCHANGED <<vault, graph, settings, start, end, service, modal>>

NextHub == CallDegreeCentrality \/ CallBridgingCoefficient

SpecHub == InitHub /\ [][NextHub]_vars

----------------------------------------------------------------------------
(* calculateBetweennessCentrality of the modal with its counters: the      *)
(* sampled pairs, findShortestPath for every pair, the counters of the     *)
(* interior nodes of the path, and the scaling to 0..10.                   *)

\* largest number of files of the vault whose pairs are sampled
MaxBetweenNodes == 4
\* largest number of edges of the graph
MaxBetweenEdges == 3

\* the scaled values go up to 10
BetweennessScale == 10

\* the graphs of n files: the files are the keys, no node links to itself
BetweenGraphs(n) ==
    {MakeGraph(FirstNodes(n), edges) :
        edges \in {es \in SUBSET {<<x, y>> \in Range(FirstNodes(n)) \X Range(FirstNodes(n)) : x # y} :
                      Cardinality(es) <= MaxBetweenEdges}}

RECURSIVE PairsFrom(_, _, _, _, _)
\* the two loops of getSamplePairs for fewer than 10 files
PairsFrom(files, i, j, count, pairs) ==
    IF i > Len(files) \/ Len(pairs) >= count THEN pairs
    ELSE IF j > Len(files) THEN PairsFrom(files, i + 1, i + 2, count, pairs)
    ELSE PairsFrom(files, i, j + 1, count, Append(pairs, <<files[i], files[j]>>))

\* getSamplePairs(files, count) for fewer than 10 files: the pairs are not drawn at random
getSamplePairs(files, count) == PairsFrom(files, 1, 2, count, <<>>)

\* the counters after one pair of the batch: every interior node of path that is on the
\* shortest path of the pair is counted
CountPair(g, path, result, pair, cfg) ==
    LET shortestPath == findShortestPath(g, Len(g), pair[1], pair[2], cfg)
        p == IF pair[1] # pair[2] /\ shortestPath.distance > 0 THEN shortestPath.path ELSE <<>>
        intermediateNodes == Range(SubSeq(path, 2, Len(path) - 1))
    IN [node \in DOMAIN result |->
            IF node \in intermediateNodes /\ node \in Range(p)
            THEN result[node] + 1 ELSE result[node]]

RECURSIVE CountBatch(_, _, _, _, _, _, _)
\* the counters after the pairs k..last of samplePairs
CountBatch(g, path, result, samplePairs, k, last, cfg) ==
    IF k > last \/ k > Len(samplePairs) THEN result
    ELSE CountBatch(g, path, CountPair(g, path, result, samplePairs[k], cfg),
                    samplePairs, k + 1, last, cfg)

\* Math.max(...Object.values(result))
MaxValue(result) ==
    CHOOSE m \in {result[k] : k \in DOMAIN result} : \A k \in DOMAIN result : result[k] <= m

\* values that are returned as they were counted
Normalize_Raw(result) == result

\* Math.round((result[node] / maxValue) * 10) for every node, when maxValue > 0
Normalize(result) ==
    LET maxValue == MaxValue(result)
    IN IF maxValue > 0
       THEN [node \in DOMAIN result |->
                (2 * BetweennessScale * result[node] + maxValue) \div (2 * maxValue)]
       ELSE result

\* the loop of calculateBetweennessCentrality at the test of i (0-based), with the
\* counters so far: the return after the last batch, the return when the flag is set,
\* or one more batch and the await of the timer
BetweennessStep(g, path, samplePairs, i, result, flag, cfg) ==
    IF i >= Len(samplePairs)
    THEN [op |-> "calculateBetweennessCentrality", step |-> "returned", i |-> i,
          path |-> path, result |-> Normalize(result), counters |-> result,
          cancelled |-> FALSE]
    ELSE IF flag
    THEN [op |-> "calculateBetweennessCentrality", step |-> "returned", i |-> i,
          path |-> path, result |-> result, counters |-> result, cancelled |-> TRUE]
    ELSE [op |-> "calculateBetweennessCentrality", step |-> "batch",
          i |-> i + BATCH_SIZE_BETWEENNESS, path |-> path,
          result |-> CountBatch(g, path, result, samplePairs, i + 1,
                                i + BATCH_SIZE_BETWEENNESS, cfg),
          counters |-> result, cancelled |-> FALSE]

\* the sample of calculateBetweennessCentrality for a path, over the files of the graph
SampleOf(g, path) ==
    getSamplePairs([k \in 1..Len(g) |-> g[k].key],
                   Min(MaxSampleSize, Max(MinSampleSize, Len(path) * 3)))

InitBetweenness ==
    /\ \E n \in 3..MaxBetweenNodes : graph \in BetweenGraphs(n)
    /\ vault = NoVault
    /\ settings = DefaultSettings
    /\ start = "a"
    /\ end = "c"
    /\ call = NoCall
    /\ NoService

\* calculateBetweennessCentrality(graph, shortestPath.path) up to its return or its first
\* await of the timer
CallBetweenness ==
    /\ call = NoCall
    /\ LET path == findShortestPath(graph, Len(graph), start, end, settings).path
           zero == [node \in Range(path) |-> 0]
       IN call' = IF Len(path) <= 2
                  THEN [op |-> "calculateBetweennessCentrality", step |-> "returned", i |-> 0,
                        path |-> path, result |-> zero, counters |-> zero,
                        cancelled |-> FALSE]
                  ELSE BetweennessStep(graph, path, SampleOf(graph, path), 0, zero,
                                       modal.cancelAnalysisFlag, settings)
    /\ UNCHANGED <<vault, graph, settings, start, end, service, modal>>

\* the timer has fired: the next turn of the loop
BetweennessTimer ==
    /\ call.op = "calculateBetweennessCentrality"
    /\ call.step = "batch"
    /\ call' = BetweennessStep(graph, call.path, SampleOf(graph, call.path), call.i,
                               call.result, modal.cancelAnalysisFlag, settings)
    /\ UNCHANGED <<vault, graph, settings, start, end, service, modal>>

\* a click on the cancel button while the timer is awaited
CancelBetweenness ==
    /\ call.op = "calculateBetweennessCentrality"
    /\ call.step = "batch"
    /\ ~modal.cancelAnalysisFlag
    /\ modal' = [modal EXCEPT !.cancelAnalysisFlag = TRUE, !.status = "Cancelling analysis..."]
    /\ UNCHANGED <<vault, graph, settings, start, end, call, service>>

NextBetweenness == CallBetweenness \/ BetweennessTimer \/ CancelBetweenness

SpecBetweenness == InitBetweenness /\ [][NextBetweenness]_vars

----------------------------------------------------------------------------
(* getTopHubNotes of the hub detection service. metrics.pageRank is a      *)
(* sequence of [key, val] entries in the order of Object.keys. The other   *)
(* metrics and the basename are copied into the notes in the same way as   *)
(* pageRank and play no part in the choice or the order of the notes.      *)

\* largest number of paths of metrics.pageRank
MaxTopNodes == 3
\* largest value of metrics.pageRank
MaxRankValue == 2
\* largest count
MaxCount == 3

RECURSIVE InsertNote(_, _, _)
\* note is put behind the notes that the comparator b.pageRank - a.pageRank does not
\* place after it: the sort is stable
InsertNote(notes, note, k) ==
    IF k > Len(notes) THEN Append(notes, note)
    ELSE IF notes[k].pageRank < note.pageRank
    THEN SubSeq(notes, 1, k - 1) \o <<note>> \o SubSeq(notes, k, Len(notes))
    ELSE InsertNote(notes, note, k + 1)

RECURSIVE SortByPageRank(_, _, _)
\* notes.sort((a, b) => b.pageRank - a.pageRank)
SortByPageRank(notes, k, sorted) ==
    IF k > Len(notes) THEN sorted
    ELSE SortByPageRank(notes, k + 1, InsertNote(sorted, notes[k], 1))

\* the notes of the paths of metrics.pageRank that are files of the vault
NotesOf(metrics, v) ==
    LET entries == SelectSeq(metrics.pageRank, LAMBDA e : e.key \in Range(v.files))
    IN [k \in 1..Len(entries) |->
            [path |-> entries[k].key, pageRank |-> entries[k].val]]

\* all notes in order, without the cut to count
getTopHubNotes_All(metrics, v, count) == SortByPageRank(NotesOf(metrics, v), 1, <<>>)

\* notes.slice(0, count) of the sorted notes, for count >= 0
getTopHubNotes(metrics, v, count) ==
    LET notes == SortByPageRank(NotesOf(metrics, v), 1, <<>>)
    IN SubSeq(notes, 1, Min(count, Len(notes)))

\* the vault holds some of the first files
InitTopHubs ==
    /\ \E present \in SUBSET Range(FirstNodes(MaxTopNodes)) :
          vault = [NoVault EXCEPT !.files = SelectSeq(FirstNodes(MaxTopNodes),
                                                      LAMBDA f : f \in present)]
    /\ graph = <<>>
    /\ settings = DefaultSettings
    /\ start = NoFile
    /\ end = NoFile
    /\ call = NoCall
    /\ NoService

CallGetTopHubNotes ==
    /\ call = NoCall
    /\ \E n \in 1..MaxTopNodes, count \in 0..MaxCount :
          \E values \in [1..n -> 0..MaxRankValue] :
              LET metrics == [pageRank |-> [k \in 1..n |->
                                               [key |-> NodeOrder[k], val |-> values[k]]]]
              IN call' = [op |-> "getTopHubNotes", metrics |-> metrics, count |-> count,
                          result |-> getTopHubNotes(metrics, vault, count)]
    /\ UNCHANGED <<vault, graph, settings, start, end, service, modal>>

NextTopHubs == CallGetTopHubNotes

SpecTopHubs == InitTopHubs /\ [][NextTopHubs]_vars

----------------------------------------------------------------------------
(* Properties of the path queries *)

\* the payload the graph stores for the edge s -> t
HasEdge(g, s, t) == MapHas(g, s) /\ MapHas(MapGet(g, s), t)

StoredInfo(g, s, t) == MapGet(MapGet(g, s), t)

\* connectionTypes has path.length - 1 entries, entry i the stored type of path[i] -> path[i+1]
TypesMatchPath(g, r) ==
    /\ Len(r.connectionTypes) = Len(r.path) - 1
    /\ \A i \in 1..Len(r.connectionTypes) :
          /\ i + 1 <= Len(r.path)
          /\ HasEdge(g, r.path[i], r.path[i + 1])
          /\ r.connectionTypes[i].type = StoredInfo(g, r.path[i], r.path[i + 1]).type

\* the nodes a directed route leads to from the nodes of from
RECURSIVE ReachableFrom(_, _)
ReachableFrom(g, from) ==
    LET next == from \cup {t \in Nodes : \E s \in from : HasEdge(g, s, t)}
    IN IF next = from THEN from ELSE ReachableFrom(g, next)

HasRoute(g, s, e) == e \in ReachableFrom(g, {s})

\* C1: every PathResult with distance >= 0 that findShortestPath returns, under
\* either strategy, has path.length - 1 connection types, entry i carrying the type the graph
\* stores for the edge path[i] -> path[i+1]
C1_TypesMatchPath ==
    /\ call.op = "strategies" =>
          /\ call.original.distance >= 0 => TypesMatchPath(graph, call.original)
          /\ call.bidirectional.distance >= 0 => TypesMatchPath(graph, call.bidirectional)
    /\ call.op = "findShortestPath" =>
          (call.result.distance >= 0 => TypesMatchPath(graph, call.result))

\* C2: the single-source BFS and the bidirectional BFS return the same distance
\* for the same graph, start, end and maximum path length
C2_StrategiesAgree ==
    call.op = "strategies" => call.original.distance = call.bidirectional.distance

\* C3: findShortestPath(graph, a, a) is distance 0, path [a], no connection types, for every
\* graph and every a, a key of the graph or not
C3_SameNode ==
    (call.op = "findShortestPath" /\ start = end) =>
        call.result = [distance |-> 0, path |-> <<start>>, connectionTypes |-> <<>>]

C3_Witness ==
    /\ call.op = "findShortestPath"
    /\ start = end
    /\ ~MapHas(graph, start)
    /\ call.graphSize >= StrategyThreshold

\* C4 (as claimed): when start or end is no key of the graph, findShortestPath returns
\* distance -1 with empty path and connection types
C4_MissingEndpoint ==
    (call.op = "findShortestPath" /\ (~MapHas(graph, start) \/ ~MapHas(graph, end))) =>
        call.result = NoPath

\* C4 (amended): when start # end and start or end is no key of the graph, findShortestPath
\* returns distance -1 with empty path and connection types
C4_MissingEndpointDistinct ==
    (call.op = "findShortestPath" /\ start # end
        /\ (~MapHas(graph, start) \/ ~MapHas(graph, end))) =>
        call.result = NoPath

\* an edge of the graph leads to the end node, which is no key
C4_Witness ==
    /\ call.op = "findShortestPath"
    /\ start # end
    /\ MapHas(graph, start) /\ ~MapHas(graph, end)
    /\ HasRoute(graph, start, end)
    /\ call.result = NoPath

\* C5: when no directed route leads from start to end (start # end), the result is
\* distance -1 with empty path and connection types, under either strategy
C5_NoRoute ==
    (start # end /\ ~HasRoute(graph, start, end)) =>
        /\ call.op = "strategies" =>
              call.original = NoPath /\ call.bidirectional = NoPath
        /\ call.op = "findShortestPath" => call.result = NoPath

\* edges leave start and edges lead to end, but no route joins them
C5_Witness ==
    /\ call.op = "strategies"
    /\ start # end
    /\ ~HasRoute(graph, start, end)
    /\ Len(Neighbors(graph, start)) > 0
    /\ \E s \in Nodes : HasEdge(graph, s, end)
    /\ call.bidirectional = NoPath

\* C6: under both strategies the distance returned never exceeds
\* settings.maxPathLength
C6_WithinMaxPathLength ==
    /\ call.op = "strategies" =>
          /\ call.original.distance <= settings.maxPathLength
          /\ call.bidirectional.distance <= settings.maxPathLength
    /\ call.op = "findShortestPath" => call.result.distance <= settings.maxPathLength

SortedByPathLength(result) ==
    \A i \in 1..Len(result) - 1 : Len(result[i].path) <= Len(result[i + 1].path)

\* the first result is the result of findShortestPath
ShortestFirst(result) ==
    Len(result) > 0 =>
        result[1] = findShortestPath(graph, call.graphSize, start, end, settings)

\* C7 (as claimed): findAllPaths returns at most maxPaths results, for every integer
\* maxPaths, in non-decreasing order of path length, the shortest path first
C7_AtMostMaxPaths ==
    call.op = "findAllPaths" =>
        /\ Len(call.result) <= call.maxPaths
        /\ SortedByPathLength(call.result)
        /\ ShortestFirst(call.result)

\* C7 (amended): findAllPaths returns at most maxPaths results when maxPaths >= 1 and at
\* most one result otherwise, in non-decreasing order of path length, the shortest path first
C7_AtMostMaxPathsOrOne ==
    call.op = "findAllPaths" =>
        /\ Len(call.result) <= (IF call.maxPaths >= 1 THEN call.maxPaths ELSE 1)
        /\ SortedByPathLength(call.result)
        /\ ShortestFirst(call.result)

\* the depth-first search has added a path that is longer than the shortest one and
\* has stopped at maxPaths results
C7_Witness ==
    /\ call.op = "findAllPaths"
    /\ call.maxPaths = 2
    /\ Len(call.result) = 2
    /\ Len(call.result[1].path) < Len(call.result[2].path)

----------------------------------------------------------------------------
(* Properties of the graph that is built *)

PlainLink(name) == [text |-> name, embedded |-> FALSE]

\* the documents A, B, C where A links to B and B links to C and nothing else makes
\* an edge: no file shares a tag with another
ChainVault ==
    /\ vault.files = <<"A.md", "B.md", "C.md">>
    /\ vault.content["A.md"] = <<PlainLink(<<"B">>)>>
    /\ vault.content["B.md"] = <<PlainLink(<<"C">>)>>
    /\ vault.content["C.md"] = <<>>
    /\ \A d \in Docs : vault.tags[d] = {}

ResultTypes(r) == [i \in 1..Len(r.connectionTypes) |-> r.connectionTypes[i].type]

\* C8: on the graph built from A -> B -> C, findShortestPath(C, A) is distance 2,
\* path [C, B, A], types [Backlink, Backlink] with backlink inference enabled, and
\* findShortestPath(A, C) is distance 2, path [A, B, C], types [Direct, Direct] with
\* backlink inference disabled
C8_ChainScenario ==
    (ChainVault /\ call.op = "findShortestPath") =>
        /\ (settings.includeBacklinks /\ start = "C.md" /\ end = "A.md") =>
              /\ call.result.distance = 2
              /\ call.result.path = <<"C.md", "B.md", "A.md">>
              /\ ResultTypes(call.result) = <<BACKLINK, BACKLINK>>
        /\ (~settings.includeBacklinks /\ start = "A.md" /\ end = "C.md") =>
              /\ call.result.distance = 2
              /\ call.result.path = <<"A.md", "B.md", "C.md">>
              /\ ResultTypes(call.result) = <<DIRECT, DIRECT>>

\* the scenario of C8 does hold at the default maxPathLength
ChainScenarioAtDefault ==
    settings.maxPathLength = DefaultMaxPathLength => C8_ChainScenario

----------------------------------------------------------------------------
(* Properties of the cache *)

CacheTestPasses(test) ==
    test.cacheGraphStructure /\ test.hadCache /\ test.age < CacheValidity

\* C9: getGraph returns the cached graph exactly when caching is enabled, a cached graph
\* exists and its age is below 60000 ms; otherwise it starts buildGraph on a new graph
\* object, and when buildGraph returns with caching enabled, the graph it built is the
\* cached graph and the timestamp is the current time. The graph built over a vault that
\* did not change meanwhile is the graph of a full build.
C9_CacheOrBuild ==
    call.op = "getGraph" =>
        /\ call.step = "cached" =>
              CacheTestPasses(call.test) /\ call.returned = cachedGraph
        /\ call.step = "build" =>
              /\ ~CacheTestPasses(call.test)
              /\ heap[call.obj] = InitNodes(vault.files)
              /\ \E b \in builds : b.obj = call.obj /\ b.unprocessed = Range(vault.files)
        /\ (call.step = "built" /\ ~call.threw) =>
              /\ settings.cacheGraphStructure =>
                    cachedGraph = call.returned /\ lastCacheTime = now
              /\ call.clean => heap[call.returned] = buildGraph(vault, settings, {}).graph

\* a cache older than the validity window has been replaced by a new build
C9_Witness ==
    /\ call.op = "getGraph"
    /\ call.step = "built"
    /\ ~call.threw
    /\ call.returned = 2
    /\ cachedGraph = 2
    /\ lastCacheTime = now
    /\ now > StartTime

\* C10: after updateGraphCache(doc, delete) on an existing cache with caching enabled, doc
\* is no key of the cached graph and no Map of the cached graph has doc as a key
C10_DeleteRemovesNode ==
    (call.op = "updateGraphCache" /\ call.step = "deleted") =>
        /\ ~MapHas(heap[cachedGraph], call.file)
        /\ \A i \in 1..Len(heap[cachedGraph]) : ~MapHas(heap[cachedGraph][i].val, call.file)

\* the file deleted was a node of the cached graph with an edge leading to it
C10_Witness ==
    /\ call.op = "updateGraphCache"
    /\ call.step = "deleted"
    /\ MapHas(call.before, call.file)
    /\ \E i \in 1..Len(call.before) : MapHas(call.before[i].val, call.file)
    /\ Len(heap[cachedGraph]) > 0

----------------------------------------------------------------------------
(* Properties of the incremental update *)

\* the edges of the Map m that processFile extracts: all but the Backlink edges
ExtractedEdges(m) ==
    {[target |-> m[i].key, type |-> m[i].val.type] : i \in {j \in 1..Len(m) : m[j].val.type # BACKLINK}}

\* an updateGraphCache(file, changeType) has completed on the graph that is still the cache
UpdateCompleted(changeType) ==
    /\ call.op = "updateGraphCache"
    /\ call.step = "processed"
    /\ call.changeType = changeType
    /\ call.obj = cachedGraph
    /\ call.file \in Range(vault.files)
    /\ MapHas(heap[cachedGraph], call.file)

\* C11: after updateGraphCache(doc, modify) completes on an existing cache, the Direct,
\* Embedded and Tag edges of doc in the cached graph are exactly those extracted from the
\* current content of doc
C11_ModifyOverwrites ==
    UpdateCompleted("modify") =>
        ExtractedEdges(MapGet(heap[cachedGraph], call.file))
            = ExtractedEdges(FileLinks(<<>>, vault, call.file, call.files, settings))

\* C12: when reading the changed document throws during updateGraphCache (modify or
\* create), the call leaves the timestamp such that the next getGraph does not use the cache
C12_FailureInvalidates ==
    (call.op = "updateGraphCache" /\ call.step = "processed" /\ call.readFailed) => ~UseCache

\* the nodes and the typed edges of a graph
GraphEdges(g) ==
    [nodes |-> MapKeys(g),
     edges |-> UNION {{[source |-> g[i].key, target |-> g[i].val[j].key, type |-> g[i].val[j].val.type]
                        : j \in 1..Len(g[i].val)} : i \in 1..Len(g)}]

\* C13: with backlink inference disabled, after every sequence of changes each followed by
\* the matching updateGraphCache call, the cached graph has the nodes and edges of the graph
\* that buildGraph makes of the current vault
C13_IncrementalEqualsRebuild ==
    ~settings.includeBacklinks =>
        GraphEdges(heap[cachedGraph]) = GraphEdges(buildGraph(vault, settings, {}).graph)

\* every edge target of g is a key of g
TargetsAreNodes(g) ==
    \A i \in 1..Len(g) : \A j \in 1..Len(g[i].val) : MapHas(g, g[i].val[j].key)

\* C14: every edge target is a key of the graph, in the graph that getGraph's buildGraph
\* returns and in the cached graph after every sequence of updateGraphCache calls
C14_TargetsAreNodes ==
    /\ (call.op = "getGraph" /\ call.step = "built" /\ ~call.threw)
            => TargetsAreNodes(heap[call.returned])
    /\ cachedGraph # Null => TargetsAreNodes(heap[cachedGraph])

----------------------------------------------------------------------------
(* Properties of a build with a failing read *)

\* buildGraph has run over the vault and vault.read threw for one of its files
BuildWithFailedRead ==
    /\ call.op = "buildGraph"
    /\ call.unreadable # {}
    /\ call.unreadable \subseteq Range(vault.files)

\* the types of the edges that leave file in g
OutTypes(g, file) == {MapGet(g, file)[j].val.type : j \in 1..Len(MapGet(g, file))}

\* C15 as stated: when reading one document fails during buildGraph, the build completes,
\* every document is a node and the failed document has no outgoing edge
C15_FailedReadIsolated ==
    BuildWithFailedRead =>
        /\ ~call.threw
        /\ MapKeys(graph) = Range(vault.files)
        /\ \A f \in call.unreadable : MapGet(graph, f) = <<>>

\* C15: when reading one document fails during buildGraph, the build completes, every
\* document is a node and no Direct, Embedded or Tag edge leaves the failed document: its
\* only outgoing edges are the Backlink edges inferred from the documents that link to it,
\* and it has none when backlink inference is disabled
C15_FailedReadContributesNothing ==
    BuildWithFailedRead =>
        /\ ~call.threw
        /\ MapKeys(graph) = Range(vault.files)
        /\ \A f \in call.unreadable :
              /\ OutTypes(graph, f) \subseteq {BACKLINK}
              /\ \A j \in 1..Len(MapGet(graph, f)) :
                    /\ MapHas(MapGet(graph, MapGet(graph, f)[j].key), f)
                    /\ MapGet(MapGet(graph, MapGet(graph, f)[j].key), f).type # BACKLINK
              /\ ~settings.includeBacklinks => MapGet(graph, f) = <<>>

\* the failed document has links that resolve, and a Backlink edge leaves it
C15_Witness ==
    /\ BuildWithFailedRead
    /\ \E f \in call.unreadable :
          /\ FileLinks(<<>>, vault, f, vault.files, settings) # <<>>
          /\ MapGet(graph, f) # <<>>

----------------------------------------------------------------------------
(* Properties of cancellation *)

\* C16: once the cancellation flag is set, buildGraph, calculateBetweennessCentrality and
\* calculateClusteringCoefficient start no further batch
C16_NoBatchAfterCancel ==
    [][modal.cancelAnalysisFlag => call'.op # "batch"]_vars

\* C17: when cancellation was requested while analyzeConnections was running, the run ends
\* with the status 'Analysis cancelled' and has not called displayResults
C17_CancelledRunEnds ==
    (call.op = "analyzeConnections" /\ call.step = "end" /\ modal.requested)
        => modal.status = "Analysis cancelled" /\ ~modal.displayCalled

----------------------------------------------------------------------------
(* Properties of the cached graph and its callers *)

\* getGraph has just handed the graph object call.returned to its caller
GraphReturned ==
    /\ call.op = "getGraph"
    /\ \/ call.step = "cached"
       \/ call.step = "built" /\ ~call.threw

\* C18: the graph that getGraph has handed to a caller is not changed by a later
\* updateGraphCache
C18_ReturnedGraphUnchanged ==
    [][(GraphReturned /\ call'.op = "updateGraphCache")
            => heap'[call.returned] = heap[call.returned]]_vars

\* the cached graph g is patched for the change of file: the node of a deleted file and the
\* edges to it are gone, a created file is a node, a modified file has its extracted edges
PatchedFor(g, file, changeType) ==
    IF changeType = "delete"
    THEN ~MapHas(g, file) /\ \A i \in 1..Len(g) : ~MapHas(g[i].val, file)
    ELSE /\ MapHas(g, file)
         /\ ExtractedEdges(MapGet(g, file))
                = ExtractedEdges(FileLinks(<<>>, vault, file, vault.files, settings))

\* C19: when the service holds a valid cached graph and the vault emits a create, modify
\* or delete event, then after the handler the cache is invalid, or patched for the file,
\* or an updateGraphCache for the file is reading it
C19_EventReachesCache ==
    (call.op = "vault" /\ UseCache)
        => \/ PatchedFor(heap[cachedGraph], call.file, call.changeType)
           \/ \E u \in pending : u.file = call.file

----------------------------------------------------------------------------
(* Properties of calculatePageRank *)

\* C20: for every non-empty graph in which every edge target is a node, the values of all
\* nodes sum to 1 after the teleportation step of every iteration
C20_RanksSumToOne ==
    (call.op = "calculatePageRank" /\ call.step = "iteration")
        => SumOver(call.rank.num, MapKeys(graph)) = call.rank.den

\* a second iteration is done on a graph with a dangling node and a node with edges
C20_Witness ==
    /\ call.op = "calculatePageRank" /\ call.step = "iteration" /\ call.iter >= 2
    /\ \E node \in MapKeys(graph) : Len(MapGet(graph, node)) = 0
    /\ \E node \in MapKeys(graph) : Len(MapGet(graph, node)) > 0

----------------------------------------------------------------------------
(* Properties of the hub metrics *)

\* the number of nodes of g whose adjacency mapping contains node
Incoming(g, node) == Cardinality({i \in 1..Len(g) : MapHas(g[i].val, node)})

\* C21: calculateDegreeCentrality gives every node an entry in inDegree, outDegree and
\* totalDegree; outDegree is the size of the node's adjacency mapping, inDegree the number
\* of nodes whose adjacency mapping contains the node, totalDegree their sum
C21_Degrees ==
    call.op = "calculateDegreeCentrality" =>
        \A node \in MapKeys(graph) :
            /\ node \in DOMAIN call.result.inDegree
            /\ node \in DOMAIN call.result.outDegree
            /\ node \in DOMAIN call.result.totalDegree
            /\ call.result.outDegree[node] = Len(MapGet(graph, node))
            /\ call.result.inDegree[node] = Incoming(graph, node)
            /\ call.result.totalDegree[node]
                    = call.result.inDegree[node] + call.result.outDegree[node]

\* the degrees of a graph with a node that no edge leads to, a node without edges and a
\* node that two edges lead to
C21_Witness ==
    /\ call.op = "calculateDegreeCentrality"
    /\ \E node \in MapKeys(graph) : call.result.inDegree[node] = 0
    /\ \E node \in MapKeys(graph) : call.result.outDegree[node] = 0
    /\ \E node \in MapKeys(graph) : call.result.inDegree[node] = 2

\* the leaves of the star g with center x: every other key. g is a star when every edge
\* joins x and a leaf, in either direction, and every leaf is joined to x
Leaves(g, x) == MapKeys(g) \ {x}

IsStar(g, x) ==
    /\ MapHas(g, x)
    /\ TargetsAreNodes(g)
    /\ ~MapHas(MapGet(g, x), x)
    /\ \A leaf \in Leaves(g, x) :
          /\ MapKeys(MapGet(g, leaf)) \subseteq {x}
          /\ hasConnection(g, x, leaf)

\* C22 as stated: in a star with center X and N >= 1 leaves, calculateBridgingCoefficient
\* gives X exactly 1 and every leaf exactly 0
C22_Star ==
    call.op = "calculateBridgingCoefficient" =>
        \A x \in MapKeys(graph) :
            (IsStar(graph, x) /\ Cardinality(Leaves(graph, x)) >= 1) =>
                /\ call.result[x].num = call.result[x].den
                /\ \A leaf \in Leaves(graph, x) : call.result[leaf].num = 0

\* C22: in a star with center X and N >= 2 leaves, calculateBridgingCoefficient gives X
\* exactly 1 and every leaf exactly 0; with one leaf X has a single neighbor and both
\* nodes get 0
C22_StarOfTwoOrMore ==
    call.op = "calculateBridgingCoefficient" =>
        \A x \in MapKeys(graph) :
            IsStar(graph, x) =>
                /\ Cardinality(Leaves(graph, x)) >= 2
                        => call.result[x].num = call.result[x].den
                /\ Cardinality(Leaves(graph, x)) = 1 => call.result[x].num = 0
                /\ \A leaf \in Leaves(graph, x) : call.result[leaf].num = 0

\* the coefficients of a star with two leaves, one that links to the center and one that
\* the center links to
C22_Witness ==
    /\ call.op = "calculateBridgingCoefficient"
    /\ \E x \in MapKeys(graph) :
          /\ IsStar(graph, x)
          /\ Cardinality(Leaves(graph, x)) >= 2
          /\ \E leaf \in Leaves(graph, x) : ~MapHas(MapGet(graph, x), leaf)
          /\ \E leaf \in Leaves(graph, x) : MapHas(MapGet(graph, x), leaf)

----------------------------------------------------------------------------
(* Properties of calculateBetweennessCentrality *)

BetweennessReturned == call.op = "calculateBetweennessCentrality" /\ call.step = "returned"

\* every value is an integer of 0..10, and the largest is 10 when a counter is non-zero
ScaledToTen(result, counters) ==
    /\ \A node \in DOMAIN result : result[node] \in 0..BetweennessScale
    /\ (\E node \in DOMAIN counters : counters[node] # 0)
            => \E node \in DOMAIN result : result[node] = BetweennessScale

\* C23 as stated: every value returned by any call of calculateBetweennessCentrality is an
\* integer of 0..10, and the largest is exactly 10 when a counter is non-zero
C23_ScaledToTen ==
    BetweennessReturned => ScaledToTen(call.result, call.counters)

\* C23: every value returned by a call of calculateBetweennessCentrality that was not
\* cancelled is an integer of 0..10, and the largest is exactly 10 when a counter is
\* non-zero; a cancelled call returns the counters as they are
C23_ScaledToTenUnlessCancelled ==
    BetweennessReturned =>
        IF call.cancelled THEN call.result = call.counters
        ELSE ScaledToTen(call.result, call.counters)

\* a call that was not cancelled returns 10 for one node and a value between for another
C23_Witness ==
    /\ BetweennessReturned
    /\ ~call.cancelled
    /\ \E node \in DOMAIN call.result : call.result[node] = BetweennessScale
    /\ \E node \in DOMAIN call.result : call.result[node] \in 1..(BetweennessScale - 1)

----------------------------------------------------------------------------
(* Properties of getTopHubNotes *)

RECURSIVE RouteLength(_, _, _, _)
RouteLength(g, seen, e, d) ==
    IF e \in seen THEN d
    ELSE LET next == seen \cup {t \in Nodes : \E s \in seen : HasEdge(g, s, t)}
         IN IF next = seen THEN -1 ELSE RouteLength(g, next, e, d + 1)

\* C25: the single-source BFS returns the minimum number of edges over all directed routes
\* from start to end whenever that minimum is at most the maximum path length, the case of
\* a minimum equal to the maximum included
C25_BfsReturnsMinimum ==
    call.op = "strategies" =>
        LET least == RouteLength(graph, {start}, end, 0)
        IN (least >= 0 /\ least <= settings.maxPathLength) => call.original.distance = least

\* the same for a minimum below the maximum path length
BfsReturnsMinimumBelowMax ==
    call.op = "strategies" =>
        LET least == RouteLength(graph, {start}, end, 0)
        IN (least >= 0 /\ least < settings.maxPathLength) => call.original.distance = least


\* what the claim of the backlink pass says of the graph after, given the graph before
BacklinkPassDone(before, after) ==
    \A s \in Docs, t \in Docs :
        HasEdge(after, s, t) =>
            /\ HasEdge(after, t, s)
            /\ (StoredInfo(after, t, s).type = BACKLINK) <=> ~HasEdge(before, t, s)
            /\ HasEdge(before, s, t) => StoredInfo(after, s, t) = StoredInfo(before, s, t)

\* every edge of g has an edge back
EveryEdgeHasReverse(g) ==
    \A s \in Docs, t \in Docs : HasEdge(g, s, t) => HasEdge(g, t, s)

\* C26: after buildGraph with backlink inference enabled, for every edge source -> target
\* the target has an edge back to source; the reverse edge has type Backlink exactly when
\* the target had no edge to source before the backlink pass, and an edge present before
\* the pass keeps its payload. For a build over a vault that does not change, the graph
\* before the pass is computed again; for a build of getGraph, the reverse edges are looked
\* for
C26_BacklinkPass ==
    /\ (call.op = "buildGraph" /\ settings.includeBacklinks /\ ~call.threw) =>
          BacklinkPassDone(ProcessFiles(InitNodes(vault.files), vault, vault.files, 1,
                                        settings, call.unreadable),
                           graph)
    /\ (call.op = "getGraph" /\ call.step = "built" /\ settings.includeBacklinks
            /\ ~call.threw) =>
          EveryEdgeHasReverse(heap[call.returned])

\* the same for a build during which no file of the vault was created, changed or deleted
BacklinkPassOfCleanBuild ==
    /\ (call.op = "buildGraph" /\ settings.includeBacklinks /\ ~call.threw) =>
          BacklinkPassDone(ProcessFiles(InitNodes(vault.files), vault, vault.files, 1,
                                        settings, call.unreadable),
                           graph)
    /\ (call.op = "getGraph" /\ call.step = "built" /\ settings.includeBacklinks
            /\ ~call.threw /\ call.clean) =>
          EveryEdgeHasReverse(heap[call.returned])


\* C27: no two PathResults in the sequence returned by findAllPaths have the same node
\* sequence
C27_NoDuplicatePaths ==
    call.op = "findAllPaths" =>
        \A i \in 1..Len(call.result), j \in 1..Len(call.result) :
            i # j => call.result[i].path # call.result[j].path

\* the depth-first search has not stopped at maxPaths results, so it has come to the end
\* node along the shortest path, of which no edge is removed, and along one other path
C27_Witness ==
    /\ call.op = "findAllPaths"
    /\ call.maxPaths = MaxPaths
    /\ Len(call.result) = 2
    /\ Len(call.result[1].path) = 3
    /\ Len(call.result[1].path) <= settings.maxPathLength

\* r is a directed path of g from s to e that has no node twice
IsSimplePath(g, r, s, e) ==
    /\ Len(r.path) >= 1
    /\ r.path[1] = s
    /\ r.path[Len(r.path)] = e
    /\ \A i \in 1..(Len(r.path) - 1) : HasEdge(g, r.path[i], r.path[i + 1])
    /\ \A i \in 1..Len(r.path), j \in 1..Len(r.path) : i # j => r.path[i] # r.path[j]

\* C28: every PathResult returned by findAllPaths is a directed path of the input graph:
\* its first node is start, its last node is end, each consecutive pair is an edge of the
\* input graph, and no node occurs twice
C28_DirectedSimplePaths ==
    call.op = "findAllPaths" =>
        \A i \in 1..Len(call.result) : IsSimplePath(graph, call.result[i], start, end)

\* a path of the depth-first search, of three or more edges, on a graph with an edge back
\* to a node of that path
C28_Witness ==
    /\ call.op = "findAllPaths"
    /\ Len(call.result) >= 2
    /\ LET r == call.result[Len(call.result)]
       IN /\ Len(r.path) >= 4
          /\ HasEdge(graph, r.path[3], r.path[2])


\* the edges of a Map that no backlink pass has made, as pairs of target and type
OwnEdges(m) == {<<m[i].key, m[i].val.type>> : i \in {k \in 1..Len(m) : m[k].val.type # BACKLINK}}

\* graph g shows file as the vault holds it: a file that is gone is no key and no target,
\* and a file of the vault has the edges its text makes
ReflectsFile(g, file) ==
    IF file \notin Range(vault.files)
    THEN ~MapHas(g, file) /\ \A s \in Docs : ~HasEdge(g, s, file)
    ELSE /\ MapHas(g, file)
         /\ OwnEdges(MapGet(g, file)) = OwnEdges(FileLinks(<<>>, vault, file, vault.files, settings))

\* C29: if a change notification reaches updateGraphCache while a build started by getGraph
\* is suspended, then after the build completes either the graph stored in the cache
\* reflects that change or the cache is left invalid, so that the next getGraph rebuilds.
\* The notification is the call made for the change of the vault in the step before it,
\* and the vault has not changed since
C29_ChangeDuringBuildNotLost ==
    (call.op = "getGraph" /\ call.step = "built" /\ ~call.threw /\ call.notified # NoFile) =>
        (UseCache => ReflectsFile(heap[cachedGraph], call.notified))


\* C30: rebuildGraphCache always performs a full buildGraph and replaces the cached graph
\* of the graph service, even when the service holds a cached graph younger than the
\* validity window: no rebuildGraphCache returns the cached graph
C30_RebuildAlwaysBuilds ==
    call.op = "rebuildGraphCache" => call.step = "build"

\* the same for a service whose cached graph getGraph would not use
RebuildBuildsWithoutValidCache ==
    (call.op = "rebuildGraphCache"
        /\ ~(call.test.cacheGraphStructure /\ call.test.hadCache /\ call.test.age < CacheValidity))
        => call.step = "build"

============================================================================
